---- MODULE Spec2Model ----
(***************************************************************************)
(* Order management service: the HTTP create / get handlers, the SQS order *)
(* processor, the DynamoDB order table and the order-events queue.         *)
(***************************************************************************)
EXTENDS Integers, Sequences, FiniteSets, TLC

(***************************************************************************)
(* Bounds of the model.                                                    *)
(***************************************************************************)
\* The clock new Date() reads runs over 0..MaxTime.
MaxTime == 1
\* Largest number of records Lambda hands to one processor invocation.
MaxBatch == 2
\* At-least-once delivery: a message the processor handled is delivered
\* again only while it has been received at most MaxRedeliver times.
MaxRedeliver == 1
\* Producers other than the create handler send at most MaxForeign messages.
MaxForeign == 1
\* Processor invocations that may run at the same time.
MaxWorkers == 2

(***************************************************************************)
(* Program constants.                                                      *)
(***************************************************************************)
\* items.length > 10 flags a large order.
LargeOrderItems == 10
\* Amounts of money are counted in thousandths, so that prices below a cent
\* can be written: 15.99 is 15990.
Thousandths == 1000
Amount(units) == units * Thousandths
\* totalValue > 10000 flags a high-value order.
HighValueTotal == Amount(10000)
\* The queue's redrive policy: Max Receive Count.
MaxReceiveCount == 3

(***************************************************************************)
(* JavaScript values of unknown shape (a parsed request body, a parsed     *)
(* message) carry their type.                                              *)
(***************************************************************************)
undefined == [t |-> "undefined"]
null == [t |-> "null"]
Num(n) == [t |-> "number", v |-> n]
\* A string is the sequence of its characters.
Str(s) == [t |-> "string", v |-> s]
Arr(s) == [t |-> "array", v |-> s]

\* !x for the values above: undefined, null, 0 and the empty string are falsy.
Falsy(x) ==
    \/ x.t \in {"undefined", "null"}
    \/ x.t = "number" /\ x.v = 0
    \/ x.t = "string" /\ x.v = << >>

\* x.name: a property an object does not have, or of a primitive, is undefined.
\* (Of null or undefined the access throws; the callers test that first.)
Field(x, name) ==
    IF x.t = "object" /\ name \in DOMAIN x THEN x[name] ELSE undefined

\* n copies of x, as a sequence.
Repeat(x, n) == [i \in 1..n |-> x]

\* A request line item {sku, qty, price}; a field left out is undefined.
Item(sku, qty, price) == [t |-> "object", sku |-> sku, qty |-> qty, price |-> price]

\* A request body object {customerName, items}.
OrderData(customerName, items) ==
    [t |-> "object", customerName |-> customerName, items |-> items]

\* Text that JSON.parse accepts, and its value; anything else makes it throw.
JSONstringify(value) == [kind |-> "json", value |-> value]
JSONparses(text) == text.kind = "json"
JSONparse(text) == text.value

(***************************************************************************)
(* String.prototype.trim on a string given as a sequence of characters.    *)
(***************************************************************************)
RECURSIVE TrimStart(_)
TrimStart(s) ==
    IF s = << >> THEN << >>
    ELSE IF Head(s) = " " THEN TrimStart(Tail(s)) ELSE s

RECURSIVE TrimEnd(_)
TrimEnd(s) ==
    IF s = << >> THEN << >>
    ELSE IF s[Len(s)] = " " THEN TrimEnd(SubSeq(s, 1, Len(s) - 1)) ELSE s

trim(s) == TrimEnd(TrimStart(s))

(***************************************************************************)
(* httpCreateOrder: validateOrderData.                                     *)
(***************************************************************************)
\* One entry of the errors list: `Item ${index}: text`, or text alone.
ItemError(index, text) == [item |-> index, text |-> text]
BodyError(text) == [item |-> -1, text |-> text]

\* Variant: the checks of an item stop at the first one that fails.
ItemErrors_FirstOnly(item, index) ==
    LET sku == Field(item, "sku")
        qty == Field(item, "qty")
        price == Field(item, "price")
    IN
    IF Falsy(sku) \/ sku.t # "string"
    THEN << ItemError(index, "sku is required and must be a string") >>
    ELSE IF Falsy(qty) \/ qty.t # "number" \/ qty.v <= 0
    THEN << ItemError(index, "qty is required and must be a positive number") >>
    ELSE IF price.t # "undefined" /\ (price.t # "number" \/ price.v < 0)
    THEN << ItemError(index, "price must be a non-negative number") >>
    ELSE << >>

\* The errors of one item, in the order the code pushes them.
ItemErrors(item, index) ==
    LET sku == Field(item, "sku")
        qty == Field(item, "qty")
        price == Field(item, "price")
    IN
    (IF Falsy(sku) \/ sku.t # "string"
        THEN << ItemError(index, "sku is required and must be a string") >>
        ELSE << >>)
    \o (IF Falsy(qty) \/ qty.t # "number" \/ qty.v <= 0
        THEN << ItemError(index, "qty is required and must be a positive number") >>
        ELSE << >>)
    \o (IF price.t # "undefined" /\ (price.t # "number" \/ price.v < 0)
        THEN << ItemError(index, "price must be a non-negative number") >>
        ELSE << >>)

RECURSIVE ItemsErrors(_, _)
ItemsErrors(items, k) ==
    IF k > Len(items) THEN << >>
    ELSE ItemErrors(items[k], k - 1) \o ItemsErrors(items, k + 1)

\* body is a non-null object here; errors is the list the code builds.
FieldErrors(body) ==
    LET customerName == Field(body, "customerName")
        items == Field(body, "items")
    IN
    (IF Falsy(customerName) \/ customerName.t # "string"
            \/ Len(trim(customerName.v)) = 0
        THEN << BodyError("customerName is required and must be a non-empty string") >>
        ELSE << >>)
    \o (IF items.t # "array" \/ Len(items.v) = 0
        THEN << BodyError("items must be a non-empty array") >>
        ELSE ItemsErrors(items.v, 1))

\* item.sku of a null or undefined array element throws a TypeError.
validateOrderDataThrows(body) ==
    /\ ~Falsy(body)
    /\ Field(body, "items").t = "array"
    /\ \E k \in 1..Len(Field(body, "items").v) :
          Field(body, "items").v[k].t \in {"null", "undefined"}

validateOrderData(body) ==
    IF Falsy(body)
    THEN [isValid |-> FALSE, errors |-> << BodyError("Request body is required") >>]
    ELSE LET errors == FieldErrors(body)
         IN  [isValid |-> errors = << >>, errors |-> errors]


(***************************************************************************)
(* Identifiers.  A UUID string is kept as what isValidUUID's pattern reads *)
(* of it: whether it is 8-4-4-4-12 hexadecimal digits, its version digit   *)
(* and its variant digit, and a number telling equal strings apart.        *)
(***************************************************************************)
UuidString(hexGroups, version, variant, n) == << hexGroups, version, variant, n >>

\* The strings uuid() of the uuid package can return (version 4).
OrderIds == { UuidString(TRUE, "4", "a", 1), UuidString(TRUE, "4", "9", 2) }

\* Variant: any 8-4-4-4-12 group of hexadecimal digits passes.
isValidUUID_AnyHex(uuid) == uuid[1]

\* httpGetOrder: isValidUUID.
isValidUUID(uuid) ==
    /\ uuid[1]
    /\ uuid[2] \in {"1", "2", "3", "4", "5"}
    /\ uuid[3] \in {"8", "9", "a", "b", "A", "B"}

(***************************************************************************)
(* Faults a DynamoDB or SQS call can end with (error.code).                *)
(***************************************************************************)
ChannelFaults == { "ServiceUnavailable" }
NoFault == "none"


(***************************************************************************)
(* Requests.  event.body is absent, text JSON.parse rejects, or JSON text. *)
(***************************************************************************)
NoBody == [kind |-> "absent"]
Garbage == [kind |-> "garbage"]

GoodItem(qty, price) == Item(Str(<<"x">>), Num(qty), Num(Amount(price)))

\* {customerName:"Alice", items:[{sku:"x",qty:1,price:10}]}
SmallOrder == OrderData(Str(<<"A">>), Arr(<< GoodItem(1, 10) >>))
\* No price given, and a name to trim.
NoPriceOrder ==
    OrderData(Str(<<" ", "B", " ">>), Arr(<< Item(Str(<<"x">>), Num(2), undefined) >>))
\* Exactly 10 items worth exactly 10000.
BoundaryOrder == OrderData(Str(<<"A">>), Arr(Repeat(GoodItem(1, 1000), 10)))
\* 11 items of price 1 each.
ElevenCheapOrder == OrderData(Str(<<"A">>), Arr(Repeat(GoodItem(1, 1), 11)))
\* 11 items worth 11000.
ElevenDearOrder == OrderData(Str(<<"A">>), Arr(Repeat(GoodItem(1, 1000), 11)))
\* One item worth 10001.
OneDearOrder == OrderData(Str(<<"A">>), Arr(<< GoodItem(1, 10001) >>))
\* The demo's large order: 4 line items, 88 units, worth 17124.25.
DemoLargeOrder ==
    OrderData(Str(<<"Bob Smith">>),
              Arr(<< Item(Str(<<"server-rack">>), Num(5), Num(Amount(2500))),
                     Item(Str(<<"network-switch">>), Num(8), Num(Amount(450))),
                     Item(Str(<<"ethernet-cable">>), Num(50), Num(15990)),
                     Item(Str(<<"power-cable">>), Num(25), Num(8990)) >>))
\* One item at 10000.004: worth more than 10000 by less than half a cent.
SubCentOrder ==
    OrderData(Str(<<"A">>), Arr(<< Item(Str(<<"x">>), Num(1), Num(Amount(10000) + 4)) >>))

EmptyItemsOrder == OrderData(Str(<<"A">>), Arr(<< >>))
ZeroQtyOrder == OrderData(Str(<<"A">>), Arr(<< GoodItem(0, 10) >>))
NegativeQtyOrder == OrderData(Str(<<"A">>), Arr(<< GoodItem(1, 10), GoodItem(-1, 10) >>))
BlankNameOrder == OrderData(Str(<<" ">>), Arr(<< GoodItem(1, 10) >>))
\* {"customerName":"A","items":[null,{"sku":"x","qty":0,"price":10}]}
NullItemOrder == OrderData(Str(<<"A">>), Arr(<< null, GoodItem(0, 10) >>))
\* {"customerName":5,"items":[{"qty":"2","price":-1},{"sku":"x","qty":1,"price":null}]}
ManyErrorsOrder ==
    OrderData(Num(5), Arr(<< Item(undefined, Str(<<"2">>), Num(-1)),
                             Item(Str(<<"x">>), Num(1), null) >>))
\* {"items":"x"}
NoNameOrder == [t |-> "object", items |-> Str(<<"x">>)]

ValidOrders ==
    { SmallOrder, NoPriceOrder, BoundaryOrder, ElevenCheapOrder, ElevenDearOrder,
      OneDearOrder }
InvalidOrders ==
    { EmptyItemsOrder, ZeroQtyOrder, NegativeQtyOrder, BlankNameOrder, NullItemOrder,
      ManyErrorsOrder, NoNameOrder, null }

(***************************************************************************)
(* State.                                                                  *)
(***************************************************************************)
VARIABLES
    store,       \* the orders table: id -> item, for the ids that have one
    channel,     \* the order-events queue: messageId -> [body, receiveCount]
    dlq,         \* the dead-letter queue: the messageIds moved to it
    sent,        \* number of messages the queue has accepted
    now,         \* what new Date() reads
    invocation,  \* the handler invoked last: its event, the AWS commands that
                 \* succeeded in it, and the response it returned
    history,     \* per stored id, the writes made to its status, in order:
                 \* who wrote, the status and the processingNotes written
    issued,      \* per id, the number of 201 responses that carried it
    inflight     \* the processor invocations that run one step at a time:
                 \* per worker, the record it received and the update it
                 \* has built and not yet sent

vars == << store, channel, dlq, sent, now, invocation, history, issued, inflight >>

NoAttribute == "(no attribute)"
ProcessorStatuses == { "CONFIRMED", "PENDING_REVIEW", "PENDING_APPROVAL" }
Statuses == { "PENDING", "CANCELLED" } \cup ProcessorStatuses

Init ==
    /\ store = << >>
    /\ channel = << >>
    /\ dlq = {}
    /\ sent = 0
    /\ now = 0
    /\ invocation = [handler |-> "none", awaited |-> << >>]
    /\ history = << >>
    /\ issued = << >>
    /\ inflight = << >>

\* One entry of the history.
Write(by, status, processingNotes) ==
    [by |-> by, status |-> status, processingNotes |-> processingNotes]

\* f with x mapped to v, x added to its domain when new.
Put(f, x, v) == [y \in DOMAIN f \cup {x} |-> IF y = x THEN v ELSE f[y]]
\* f[x], or v when f has no x.
Lookup(f, x, v) == IF x \in DOMAIN f THEN f[x] ELSE v

(***************************************************************************)
(* httpCreateOrder: handler.                                               *)
(***************************************************************************)
\* items.map(item => ({sku, qty, price: item.price || 0}))
orderItems(items) ==
    [k \in 1..Len(items) |->
        [sku |-> items[k].sku.v,
         qty |-> items[k].qty.v,
         price |-> IF Falsy(items[k].price) THEN 0 ELSE items[k].price.v]]

\* Variant: the order is stored as already confirmed.
newOrder_Confirmed(orderData, orderId, timestamp) ==
    [id |-> orderId,
     customerName |-> trim(orderData.customerName.v),
     items |-> orderItems(orderData.items.v),
     status |-> "CONFIRMED",
     createdAt |-> timestamp,
     updatedAt |-> timestamp,
     processingNotes |-> NoAttribute]

newOrder(orderData, orderId, timestamp) ==
    [id |-> orderId,
     customerName |-> trim(orderData.customerName.v),
     items |-> orderItems(orderData.items.v),
     status |-> "PENDING",
     createdAt |-> timestamp,
     updatedAt |-> timestamp,
     processingNotes |-> NoAttribute]

\* The items of an order as JSON.stringify writes them and JSON.parse reads
\* them back.
jsonItems(items) ==
    Arr([k \in 1..Len(items) |->
        Item(Str(items[k].sku), Num(items[k].qty), Num(items[k].price))])

eventMessage(order, timestamp) ==
    [t |-> "object",
     type |-> Str(<<"OrderCreated">>),
     timestamp |-> Num(timestamp),
     detail |-> [t |-> "object",
                 id |-> Str(order.id),
                 customerName |-> Str(order.customerName),
                 items |-> jsonItems(order.items),
                 createdAt |-> Num(timestamp)]]

\* Variant: the PutCommand without its ConditionExpression.
putOrder_Unconditional(st, order, fault) ==
    IF fault # NoFault THEN [ok |-> FALSE, code |-> fault, store |-> st]
    ELSE [ok |-> TRUE, code |-> NoFault, store |-> Put(st, order.id, order)]

\* Variant: a failed condition surfaces like any other rejected request.
putOrder_ConflictAsFault(st, order, fault) ==
    IF fault # NoFault THEN [ok |-> FALSE, code |-> fault, store |-> st]
    ELSE IF order.id \in DOMAIN st
    THEN [ok |-> FALSE, code |-> "ValidationException", store |-> st]
    ELSE [ok |-> TRUE, code |-> NoFault, store |-> Put(st, order.id, order)]

\* The conditional PutCommand on table st: [ok, code, store].
putOrder(st, order, fault) ==
    IF fault # NoFault THEN [ok |-> FALSE, code |-> fault, store |-> st]
    ELSE IF order.id \in DOMAIN st
    THEN \* ConditionExpression attribute_not_exists(id) fails
         [ok |-> FALSE, code |-> "ConditionalCheckFailedException", store |-> st]
    ELSE [ok |-> TRUE, code |-> NoFault, store |-> Put(st, order.id, order)]

\* Variant: the order is deleted again when the message cannot be sent.
createOrder_Rollback(st, body, orderId, timestamp, putFault, sendFault) ==
    LET text == IF body.kind = "absent" THEN JSONstringify([t |-> "object"]) ELSE body
        orderData == JSONparse(text)
        validation == validateOrderData(orderData)
        order == newOrder(orderData, orderId, timestamp)
        put == putOrder(st, order, putFault)
        failure(statusCode, error, message) ==
            [response |-> [statusCode |-> statusCode, error |-> error, message |-> message],
             calls |-> << >>, store |-> st, message |-> << >>, uuid |-> << >>,
             faults |-> << >>]
        internalError ==
            failure(500, "Internal Server Error",
                    << "An unexpected error occurred while processing your request" >>)
    IN  IF ~JSONparses(text)
        THEN failure(400, "Invalid JSON format", << "Request body must be valid JSON" >>)
        ELSE IF validateOrderDataThrows(orderData) THEN internalError
        ELSE IF ~validation.isValid
        THEN \* the log entry reads orderData.items, which throws on null
             IF orderData.t = "null" THEN internalError
             ELSE failure(400, "Validation failed", validation.errors)
        ELSE IF ~put.ok
        THEN IF put.code = "ConditionalCheckFailedException"
             THEN [failure(409, "Conflict", << "Order with this ID already exists" >>)
                      EXCEPT !.uuid = << orderId >>, !.faults = << putFault >>]
             ELSE [internalError EXCEPT !.uuid = << orderId >>, !.faults = << putFault >>]
        ELSE IF sendFault # NoFault
        THEN [internalError EXCEPT !.calls = << "PutCommand" >>, !.store = st,
                                   !.uuid = << orderId >>,
                                   !.faults = << putFault, sendFault >>]
        ELSE [response |-> [statusCode |-> 201,
                            data |-> [id |-> orderId, status |-> "PENDING",
                                      createdAt |-> timestamp]],
              calls |-> << "PutCommand", "SendMessageCommand" >>,
              store |-> put.store,
              message |-> << JSONstringify(eventMessage(order, timestamp)) >>,
              uuid |-> << orderId >>,
              faults |-> << putFault, sendFault >>]

\* Variant: the message is sent although the PutCommand met an existing id.
createOrder_PublishOnConflict(st, body, orderId, timestamp, putFault, sendFault) ==
    LET text == IF body.kind = "absent" THEN JSONstringify([t |-> "object"]) ELSE body
        orderData == JSONparse(text)
        validation == validateOrderData(orderData)
        order == newOrder(orderData, orderId, timestamp)
        put == putOrder(st, order, putFault)
        failure(statusCode, error, message) ==
            [response |-> [statusCode |-> statusCode, error |-> error, message |-> message],
             calls |-> << >>, store |-> st, message |-> << >>, uuid |-> << >>,
             faults |-> << >>]
        internalError ==
            failure(500, "Internal Server Error",
                    << "An unexpected error occurred while processing your request" >>)
    IN  IF ~JSONparses(text)
        THEN failure(400, "Invalid JSON format", << "Request body must be valid JSON" >>)
        ELSE IF validateOrderDataThrows(orderData) THEN internalError
        ELSE IF ~validation.isValid
        THEN \* the log entry reads orderData.items, which throws on null
             IF orderData.t = "null" THEN internalError
             ELSE failure(400, "Validation failed", validation.errors)
        ELSE IF ~put.ok
        THEN IF put.code = "ConditionalCheckFailedException"
             THEN [failure(409, "Conflict", << "Order with this ID already exists" >>)
                      EXCEPT !.uuid = << orderId >>, !.faults = << putFault >>,
                             !.message = << JSONstringify(eventMessage(order, timestamp)) >>]
             ELSE [internalError EXCEPT !.uuid = << orderId >>, !.faults = << putFault >>]
        ELSE IF sendFault # NoFault
        THEN [internalError EXCEPT !.calls = << "PutCommand" >>, !.store = put.store,
                                   !.uuid = << orderId >>,
                                   !.faults = << putFault, sendFault >>]
        ELSE [response |-> [statusCode |-> 201,
                            data |-> [id |-> orderId, status |-> "PENDING",
                                      createdAt |-> timestamp]],
              calls |-> << "PutCommand", "SendMessageCommand" >>,
              store |-> put.store,
              message |-> << JSONstringify(eventMessage(order, timestamp)) >>,
              uuid |-> << orderId >>,
              faults |-> << putFault, sendFault >>]

\* Variant: the message is sent before the order is stored.
createOrder_PublishFirst(st, body, orderId, timestamp, putFault, sendFault) ==
    LET text == IF body.kind = "absent" THEN JSONstringify([t |-> "object"]) ELSE body
        orderData == JSONparse(text)
        validation == validateOrderData(orderData)
        order == newOrder(orderData, orderId, timestamp)
        put == putOrder(st, order, putFault)
        sentMessage == << JSONstringify(eventMessage(order, timestamp)) >>
        failure(statusCode, error, message) ==
            [response |-> [statusCode |-> statusCode, error |-> error, message |-> message],
             calls |-> << >>, store |-> st, message |-> << >>, uuid |-> << >>,
             faults |-> << >>]
        internalError ==
            failure(500, "Internal Server Error",
                    << "An unexpected error occurred while processing your request" >>)
    IN  IF ~JSONparses(text)
        THEN failure(400, "Invalid JSON format", << "Request body must be valid JSON" >>)
        ELSE IF validateOrderDataThrows(orderData) THEN internalError
        ELSE IF ~validation.isValid
        THEN IF orderData.t = "null" THEN internalError
             ELSE failure(400, "Validation failed", validation.errors)
        ELSE IF sendFault # NoFault
        THEN [internalError EXCEPT !.uuid = << orderId >>, !.faults = << sendFault >>]
        ELSE IF ~put.ok
        THEN IF put.code = "ConditionalCheckFailedException"
             THEN [failure(409, "Conflict", << "Order with this ID already exists" >>)
                      EXCEPT !.calls = << "SendMessageCommand" >>,
                             !.message = sentMessage,
                             !.uuid = << orderId >>, !.faults = << sendFault, putFault >>]
             ELSE [internalError EXCEPT !.calls = << "SendMessageCommand" >>,
                                        !.message = sentMessage,
                                        !.uuid = << orderId >>,
                                        !.faults = << sendFault, putFault >>]
        ELSE [response |-> [statusCode |-> 201,
                            data |-> [id |-> orderId, status |-> "PENDING",
                                      createdAt |-> timestamp]],
              calls |-> << "SendMessageCommand", "PutCommand" >>,
              store |-> put.store,
              message |-> sentMessage,
              uuid |-> << orderId >>,
              faults |-> << sendFault, putFault >>]

\* The handler as a function of event.body, of what uuid() and new Date()
\* return and of how the two AWS calls end apart from the condition:
\* [response, calls, store, message, uuid, faults], calls being the commands
\* that succeeded, message the MessageBody sent (in a one-element sequence) if
\* any, uuid what uuid() returned (in a one-element sequence) if it was called
\* and faults how the AWS calls that were made ended apart from the condition.
createOrder(st, body, orderId, timestamp, putFault, sendFault) ==
    LET text == IF body.kind = "absent" THEN JSONstringify([t |-> "object"]) ELSE body
        orderData == JSONparse(text)
        validation == validateOrderData(orderData)
        order == newOrder(orderData, orderId, timestamp)
        put == putOrder(st, order, putFault)
        failure(statusCode, error, message) ==
            [response |-> [statusCode |-> statusCode, error |-> error, message |-> message],
             calls |-> << >>, store |-> st, message |-> << >>, uuid |-> << >>,
             faults |-> << >>]
        internalError ==
            failure(500, "Internal Server Error",
                    << "An unexpected error occurred while processing your request" >>)
    IN  IF ~JSONparses(text)
        THEN failure(400, "Invalid JSON format", << "Request body must be valid JSON" >>)
        ELSE IF validateOrderDataThrows(orderData) THEN internalError
        ELSE IF ~validation.isValid
        THEN \* the log entry reads orderData.items, which throws on null
             IF orderData.t = "null" THEN internalError
             ELSE failure(400, "Validation failed", validation.errors)
        ELSE IF ~put.ok
        THEN IF put.code = "ConditionalCheckFailedException"
             THEN [failure(409, "Conflict", << "Order with this ID already exists" >>)
                      EXCEPT !.uuid = << orderId >>, !.faults = << putFault >>]
             ELSE [internalError EXCEPT !.uuid = << orderId >>, !.faults = << putFault >>]
        ELSE IF sendFault # NoFault
        THEN [internalError EXCEPT !.calls = << "PutCommand" >>, !.store = put.store,
                                   !.uuid = << orderId >>,
                                   !.faults = << putFault, sendFault >>]
        ELSE [response |-> [statusCode |-> 201,
                            data |-> [id |-> orderId, status |-> "PENDING",
                                      createdAt |-> timestamp]],
              calls |-> << "PutCommand", "SendMessageCommand" >>,
              store |-> put.store,
              message |-> << JSONstringify(eventMessage(order, timestamp)) >>,
              uuid |-> << orderId >>,
              faults |-> << putFault, sendFault >>]

httpCreateOrder(body, orderId, putFault, sendFault) ==
    LET run == createOrder(store, body, orderId, now, putFault, sendFault)
        created == run.response.statusCode = 201
    IN  /\ store' = run.store
        /\ history' = IF "PutCommand" \in { run.calls[k] : k \in DOMAIN run.calls }
                       THEN Put(history, orderId,
                                Append(Lookup(history, orderId, << >>),
                                       Write("intake", "PENDING", NoAttribute)))
                       ELSE history
        /\ sent' = sent + Len(run.message)
        /\ channel' = IF run.message = << >> THEN channel
                       ELSE Put(channel, sent + 1,
                                [body |-> run.message[1], receiveCount |-> 0])
        /\ issued' = IF created THEN Put(issued, orderId, Lookup(issued, orderId, 0) + 1)
                      ELSE issued
        /\ invocation' = [handler |-> "httpCreateOrder",
                          event |-> body,
                          calls |-> run.calls,
                          response |-> run.response,
                          uuid |-> run.uuid,
                          faults |-> run.faults,
                          awaited |-> IF created THEN << orderId >> ELSE << >>]
        /\ UNCHANGED << dlq, now, inflight >>

(***************************************************************************)
(* httpGetOrder: handler.                                                  *)
(***************************************************************************)
\* parseFloat(x.toFixed(2)): x rounded to the nearest hundredth, a half
\* upwards.
toFixed2(x) == ((x + 5) \div 10) * 10

\* order.items.reduce((total, item) => total + (item.price || 0) * (item.qty || 0), 0)
RECURSIVE orderTotal(_)
orderTotal(items) ==
    IF items = << >> THEN 0
    ELSE Head(items).price * Head(items).qty + orderTotal(Tail(items))

\* The handler as a function of event.pathParameters?.id (undefined when
\* absent), of the table and of how the GetCommand ends: the response.
getOrder(st, pathId, fault) ==
    LET failure(statusCode, error) == [statusCode |-> statusCode, error |-> error]
    IN  IF Falsy(pathId) THEN failure(400, "Bad Request")
        ELSE IF ~isValidUUID(pathId.v) THEN failure(400, "Bad Request")
        ELSE IF fault = "ResourceNotFoundException" THEN failure(404, "Not Found")
        ELSE IF fault = "ProvisionedThroughputExceededException"
            THEN failure(429, "Too Many Requests")
        ELSE IF fault # NoFault THEN failure(500, "Internal Server Error")
        ELSE IF pathId.v \notin DOMAIN st THEN failure(404, "Not Found")
        ELSE LET order == st[pathId.v]
             IN  [statusCode |-> 200,
                  data |-> [order |-> order,
                            itemCount |-> Len(order.items),
                            orderTotal |-> toFixed2(orderTotal(order.items))]]

\* The GetCommand is sent only for a well-formed id.
httpGetOrder(pathId, fault) ==
    /\ invocation' =
            [handler |-> "httpGetOrder",
             event |-> pathId,
             calls |-> IF ~Falsy(pathId) /\ isValidUUID(pathId.v) /\ fault = NoFault
                       THEN << "GetCommand" >> ELSE << >>,
             faults |-> IF ~Falsy(pathId) /\ isValidUUID(pathId.v)
                        THEN << fault >> ELSE << >>,
             response |-> getOrder(store, pathId, fault),
             afterCreate |-> ~Falsy(pathId) /\ invocation.awaited = << pathId.v >>,
             awaited |-> << >>]
    /\ UNCHANGED << store, channel, dlq, sent, now, history, issued, inflight >>

(***************************************************************************)
(* httpListOrders: parseQueryParameters.                                   *)
(***************************************************************************)
\* The value of a decimal digit.
DigitValue ==
    [c \in {"0", "1", "2", "3", "4", "5", "6", "7", "8", "9"} |->
        CASE c = "0" -> 0 [] c = "1" -> 1 [] c = "2" -> 2 [] c = "3" -> 3 [] c = "4" -> 4
          [] c = "5" -> 5 [] c = "6" -> 6 [] c = "7" -> 7 [] c = "8" -> 8 [] c = "9" -> 9]

NaN == [t |-> "NaN"]

\* The number written by the digits s starts with, after acc.
RECURSIVE parseDigits(_, _)
parseDigits(s, acc) ==
    IF s = << >> \/ Head(s) \notin DOMAIN DigitValue THEN acc
    ELSE parseDigits(Tail(s), acc * 10 + DigitValue[Head(s)])

\* parseInt(s, 10): leading blanks skipped, an optional sign, then digits up
\* to the first character that is not one; NaN when there is no digit.
parseInt(s) ==
    LET text == TrimStart(s)
        signed == text # << >> /\ Head(text) \in {"-", "+"}
        digits == IF signed THEN Tail(text) ELSE text
    IN  IF digits = << >> \/ Head(digits) \notin DOMAIN DigitValue THEN NaN
        ELSE IF signed /\ Head(text) = "-" THEN Num(0 - parseDigits(digits, 0))
        ELSE Num(parseDigits(digits, 0))

DefaultLimit == 10
MaxLimit == 100

\* Variant: a limit outside 1..100 is moved to the nearest end of the range.
effectiveLimit_Clamped(limit) ==
    IF Falsy(limit) THEN DefaultLimit
    ELSE LET n == parseInt(limit.v)
         IN  IF n.t # "number" THEN DefaultLimit
             ELSE IF n.v > MaxLimit THEN MaxLimit
             ELSE IF n.v < 1 THEN 1
             ELSE n.v

\* params.limit for queryStringParameters.limit (undefined when absent).
effectiveLimit(limit) ==
    IF Falsy(limit) THEN DefaultLimit
    ELSE LET n == parseInt(limit.v)
         IN  IF n.t = "number" /\ n.v > 0 /\ n.v <= MaxLimit THEN n.v ELSE DefaultLimit

\* Variant: SHIPPED selects the index as well.
FilterStatuses_WithShipped ==
    { <<"PENDING">>, <<"CONFIRMED">>, <<"PENDING_REVIEW">>, <<"PENDING_APPROVAL">>,
      <<"CANCELLED">>, <<"SHIPPED">> }

\* The values of the status parameter that select the index.
FilterStatuses ==
    { <<"PENDING">>, <<"CONFIRMED">>, <<"PENDING_REVIEW">>, <<"PENDING_APPROVAL">>,
      <<"CANCELLED">> }

\* s.toLowerCase(), for the sort orders written in capitals.
toLowerCase(s) ==
    [k \in 1..Len(s) |->
        CASE s[k] = "ASC" -> "asc" [] s[k] = "DESC" -> "desc" [] s[k] = "Desc" -> "desc"
          [] OTHER -> s[k]]

\* A string that is the base64 encoding of text, and the text that
\* Buffer.from(token, 'base64').toString() makes of a string: of one that
\* encodes no JSON text, bytes that JSON.parse rejects.
Base64(text) == Str(<< [enc |-> "base64", of |-> text] >>)
NotBase64 == Str(<< [enc |-> "none", of |-> Garbage] >>)
fromBase64(s) ==
    IF Len(s) = 1 /\ s[1].enc = "base64" THEN s[1].of ELSE Garbage

\* params.lastEvaluatedKey for queryStringParameters.nextToken: what the token
\* parses to, null when it is absent or JSON.parse throws.
parseToken(nextToken) ==
    IF Falsy(nextToken) THEN null
    ELSE LET text == fromBase64(nextToken.v)
         IN  IF JSONparses(text) THEN JSONparse(text) ELSE null

\* event.queryStringParameters: null when the request has no query string.
QueryString(limit, status, sortOrder, nextToken) ==
    [t |-> "object", limit |-> limit, status |-> status, sortOrder |-> sortOrder,
     nextToken |-> nextToken]

parseQueryParameters(queryStringParameters) ==
    IF Falsy(queryStringParameters)
    THEN [limit |-> DefaultLimit, status |-> null, sortOrder |-> "desc",
          lastEvaluatedKey |-> null]
    ELSE LET status == Field(queryStringParameters, "status")
             sortOrder == Field(queryStringParameters, "sortOrder")
         IN  [limit |-> effectiveLimit(Field(queryStringParameters, "limit")),
              status |-> IF ~Falsy(status) /\ status.v \in FilterStatuses
                         THEN status ELSE null,
              sortOrder |-> IF ~Falsy(sortOrder) /\ toLowerCase(sortOrder.v) = <<"asc">>
                            THEN "asc" ELSE "desc",
              lastEvaluatedKey |-> parseToken(Field(queryStringParameters, "nextToken"))]

(***************************************************************************)
(* httpListOrders: the table's Scan and the StatusIndex Query.             *)
(***************************************************************************)
\* The elements of S as a sequence, by ascending rank.
RECURSIVE Sorted(_, _)
Sorted(S, rank) ==
    IF S = {} THEN << >>
    ELSE LET first == CHOOSE x \in S : \A y \in S : rank[x] <= rank[y]
         IN  << first >> \o Sorted(S \ {first}, rank)

\* The first n elements of s, all of them when it has fewer.
Take(s, n) == SubSeq(s, 1, IF Len(s) < n THEN Len(s) ELSE n)

\* A Scan reads the items in the order of the hash of their key, which is
\* not the order of their creation: here the second id comes first.
scanRank(id) == 0 - id[4]
\* The StatusIndex holds the items of one status by createdAt, then key.
indexRank(order) == order.createdAt * 10 + (5 + scanRank(order.id))

\* The primary key of the table, and the key of an item in the StatusIndex,
\* as LastEvaluatedKey and ExclusiveStartKey carry them.
TableKey(id) == [t |-> "object", id |-> Str(id)]
IndexKey(order) ==
    [t |-> "object", id |-> Str(order.id), status |-> Str(<< order.status >>),
     createdAt |-> Num(order.createdAt)]

\* DynamoDB refuses an ExclusiveStartKey that is not a key of what is read.
validTableKey(key) ==
    /\ key.t = "object"
    /\ DOMAIN key = {"t", "id"}
    /\ key.id.t = "string"
validIndexKey(key, status) ==
    /\ key.t = "object"
    /\ DOMAIN key = {"t", "id", "status", "createdAt"}
    /\ key.id.t = "string" /\ key.createdAt.t = "number"
    /\ key.status = Str(<< status >>)

\* What a read returns: how it ended, its Items and its LastEvaluatedKey
\* (undefined unless the read stopped at its Limit).
readResult(error, Items, LastEvaluatedKey) ==
    [error |-> error, Items |-> Items, LastEvaluatedKey |-> LastEvaluatedKey]

\* ScanCommand({TableName, Limit, ExclusiveStartKey}); ExclusiveStartKey is
\* null when none is given.
scanTable(st, Limit, ExclusiveStartKey, fault) ==
    IF fault # NoFault THEN readResult(fault, << >>, undefined)
    ELSE IF ~Falsy(ExclusiveStartKey) /\ ~validTableKey(ExclusiveStartKey)
    THEN readResult("ValidationException", << >>, undefined)
    ELSE LET after == { id \in DOMAIN st :
                          \/ Falsy(ExclusiveStartKey)
                          \/ scanRank(id) > scanRank(ExclusiveStartKey.id.v) }
             page == Take(Sorted(after, [id \in after |-> scanRank(id)]), Limit)
         IN  readResult(NoFault, [k \in 1..Len(page) |-> st[page[k]]],
                        IF Len(page) = Limit THEN TableKey(page[Len(page)])
                        ELSE undefined)

\* Variant: the index returns the items of every status.
queryStatusIndex_AnyStatus(st, status, Limit, ScanIndexForward, ExclusiveStartKey, fault) ==
    scanTable(st, Limit, null, fault)

\* QueryCommand({IndexName: 'StatusIndex', '#status = :status', Limit,
\* ScanIndexForward, ExclusiveStartKey}).
queryStatusIndex(st, status, Limit, ScanIndexForward, ExclusiveStartKey, fault) ==
    IF fault # NoFault THEN readResult(fault, << >>, undefined)
    ELSE IF ~Falsy(ExclusiveStartKey) /\ ~validIndexKey(ExclusiveStartKey, status)
    THEN readResult("ValidationException", << >>, undefined)
    ELSE LET direction == IF ScanIndexForward THEN 1 ELSE 0 - 1
             rankOf(createdAt, id) == direction * (createdAt * 10 + (5 + scanRank(id)))
             after == { id \in DOMAIN st :
                          /\ st[id].status = status
                          /\ \/ Falsy(ExclusiveStartKey)
                             \/ direction * indexRank(st[id])
                                  > rankOf(ExclusiveStartKey.createdAt.v,
                                           ExclusiveStartKey.id.v) }
             page == Take(Sorted(after, [id \in after |-> direction * indexRank(st[id])]),
                          Limit)
         IN  readResult(NoFault, [k \in 1..Len(page) |-> st[page[k]]],
                        IF Len(page) = Limit THEN IndexKey(st[page[Len(page)]])
                        ELSE undefined)

(***************************************************************************)
(* httpListOrders: handler.                                                *)
(***************************************************************************)
\* orders.sort((a, b) => asc ? dateA - dateB : dateB - dateA): the sort is
\* stable, orders of one createdAt stay as they were read.
RECURSIVE insertByCreatedAt(_, _, _)
insertByCreatedAt(order, sorted, sortOrder) ==
    IF sorted = << >> THEN << order >>
    ELSE IF \/ sortOrder = "asc" /\ order.createdAt < Head(sorted).createdAt
            \/ sortOrder # "asc" /\ order.createdAt > Head(sorted).createdAt
    THEN << order >> \o sorted
    ELSE << Head(sorted) >> \o insertByCreatedAt(order, Tail(sorted), sortOrder)

\* Variant: the page is returned in the order in which it was read.
sortByCreatedAt_AsRead(orders, sortOrder) == orders

RECURSIVE sortByCreatedAt(_, _)
sortByCreatedAt(orders, sortOrder) ==
    IF orders = << >> THEN << >>
    ELSE insertByCreatedAt(orders[Len(orders)],
                           sortByCreatedAt(SubSeq(orders, 1, Len(orders) - 1), sortOrder),
                           sortOrder)

\* Variant: the total of an order adds the prices, whatever the quantities.
RECURSIVE enrichedTotal_PricesOnly(_)
enrichedTotal_PricesOnly(items) ==
    IF items = << >> THEN 0
    ELSE Head(items).price + enrichedTotal_PricesOnly(Tail(items))

\* order.items.reduce((total, item) => total + (item.price || 0) * (item.qty || 0), 0),
\* the same in the list and in the get handler.
enrichedTotal(items) == orderTotal(items)

\* {...order, itemCount, orderTotal}
enrichedOrder(order) ==
    [order |-> order,
     itemCount |-> Len(order.items),
     orderTotal |-> toFixed2(enrichedTotal(order.items))]

\* The handler as a function of event.queryStringParameters, of the table and
\* of how its read ends: the response and the command it sent.
listOrders(st, queryStringParameters, fault) ==
    LET queryParams == parseQueryParameters(queryStringParameters)
        filtered == ~Falsy(queryParams.status)
        result ==
            IF filtered
            THEN queryStatusIndex(st, queryParams.status.v[1], queryParams.limit,
                                  queryParams.sortOrder = "asc",
                                  queryParams.lastEvaluatedKey, fault)
            ELSE scanTable(st, queryParams.limit, queryParams.lastEvaluatedKey, fault)
        orders == IF filtered THEN result.Items
                  ELSE sortByCreatedAt(result.Items, queryParams.sortOrder)
        nextToken == IF Falsy(result.LastEvaluatedKey) THEN null
                     ELSE Base64(JSONstringify(result.LastEvaluatedKey))
        failure(statusCode, error) == [statusCode |-> statusCode, error |-> error]
    IN  [command |-> IF filtered THEN "QueryCommand" ELSE "ScanCommand",
         sent |-> result.error = NoFault,
         response |->
            IF result.error = "ProvisionedThroughputExceededException"
            THEN failure(429, "Too Many Requests")
            ELSE IF result.error = "ResourceNotFoundException"
            THEN failure(404, "Not Found")
            ELSE IF result.error # NoFault THEN failure(500, "Internal Server Error")
            ELSE [statusCode |-> 200,
                  data |-> [orders |-> [k \in 1..Len(orders) |-> enrichedOrder(orders[k])],
                            pagination |-> [limit |-> queryParams.limit,
                                            count |-> Len(orders),
                                            hasMore |-> ~Falsy(nextToken),
                                            nextToken |-> nextToken],
                            filters |-> [status |-> queryParams.status,
                                         sortOrder |-> queryParams.sortOrder]]]]

httpListOrders(queryStringParameters, fault) ==
    LET listed == listOrders(store, queryStringParameters, fault)
    IN  /\ invocation' =
                [handler |-> "httpListOrders",
                 event |-> queryStringParameters,
                 calls |-> IF listed.sent THEN << listed.command >> ELSE << >>,
                 command |-> listed.command,
                 faults |-> << fault >>,
                 response |-> listed.response,
                 awaited |-> << >>]
        /\ UNCHANGED << store, channel, dlq, sent, now, history, issued, inflight >>

(***************************************************************************)
(* orderProcessor: processOrderCreated.                                    *)
(***************************************************************************)
\* (x || 0) for a number or a missing value.
OrZero(x) == IF Falsy(x) THEN 0 ELSE x.v

\* Variant: the sum of the prices, whatever the quantities.
RECURSIVE totalValueOf_IgnoresQty(_)
totalValueOf_IgnoresQty(items) ==
    IF items = << >> THEN 0
    ELSE OrZero(Field(Head(items), "price")) + totalValueOf_IgnoresQty(Tail(items))

\* items.reduce((sum, item) => sum + (item.price || 0) * (item.qty || 0), 0)
RECURSIVE totalValueOf(_)
totalValueOf(items) ==
    IF items = << >> THEN 0
    ELSE OrZero(Field(Head(items), "price")) * OrZero(Field(Head(items), "qty"))
         + totalValueOf(Tail(items))

\* items?.reduce(...) throws when items is neither missing nor an array, or
\* holds a null element.
processOrderCreatedThrows(orderDetail) ==
    LET items == Field(orderDetail, "items")
    IN  /\ items.t \notin {"undefined", "null"}
        /\ \/ items.t # "array"
           \/ \E k \in 1..Len(items.v) : items.v[k].t \in {"null", "undefined"}

\* Variant: the item-count check is made after the value check and wins.
processOrderCreated_CountLast(orderDetail) ==
    LET items == Field(orderDetail, "items")
        totalValue == IF items.t = "array" THEN totalValueOf(items.v) ELSE 0
    IN  IF items.t = "array" /\ Len(items.v) > LargeOrderItems
        THEN [newStatus |-> "PENDING_REVIEW",
              processingNotes |-> "Large order requires manual review"]
        ELSE IF totalValue > HighValueTotal
        THEN [newStatus |-> "PENDING_APPROVAL",
              processingNotes |-> "High-value order requires approval"]
        ELSE [newStatus |-> "CONFIRMED",
              processingNotes |-> "Order processed successfully"]

\* Variant: the item-count check is off by one (items.length > 11).
processOrderCreated_CountOffByOne(orderDetail) ==
    LET items == Field(orderDetail, "items")
        totalValue == IF items.t = "array" THEN totalValueOf(items.v) ELSE 0
    IN  IF totalValue > HighValueTotal
        THEN [newStatus |-> "PENDING_APPROVAL",
              processingNotes |-> "High-value order requires approval"]
        ELSE IF items.t = "array" /\ Len(items.v) > LargeOrderItems + 1
        THEN [newStatus |-> "PENDING_REVIEW",
              processingNotes |-> "Large order requires manual review"]
        ELSE [newStatus |-> "CONFIRMED",
              processingNotes |-> "Order processed successfully"]

\* Variant: the value check includes its boundary (totalValue >= 10000).
processOrderCreated_ValueInclusive(orderDetail) ==
    LET items == Field(orderDetail, "items")
        totalValue == IF items.t = "array" THEN totalValueOf(items.v) ELSE 0
    IN  IF totalValue >= HighValueTotal
        THEN [newStatus |-> "PENDING_APPROVAL",
              processingNotes |-> "High-value order requires approval"]
        ELSE IF items.t = "array" /\ Len(items.v) > LargeOrderItems
        THEN [newStatus |-> "PENDING_REVIEW",
              processingNotes |-> "Large order requires manual review"]
        ELSE [newStatus |-> "CONFIRMED",
              processingNotes |-> "Order processed successfully"]

\* Variant: an order that is neither large nor of high value is left PENDING.
processOrderCreated_LeftPending(orderDetail) ==
    LET items == Field(orderDetail, "items")
        pending == [newStatus |-> "PENDING",
                    processingNotes |-> "Order processed successfully"]
        reviewed == IF items.t = "array" /\ Len(items.v) > LargeOrderItems
                    THEN [newStatus |-> "PENDING_REVIEW",
                          processingNotes |-> "Large order requires manual review"]
                    ELSE pending
        totalValue == IF items.t = "array" THEN totalValueOf(items.v) ELSE 0
    IN  IF totalValue > HighValueTotal
        THEN [newStatus |-> "PENDING_APPROVAL",
              processingNotes |-> "High-value order requires approval"]
        ELSE reviewed

processOrderCreated(orderDetail) ==
    LET items == Field(orderDetail, "items")
        confirmed == [newStatus |-> "CONFIRMED",
                      processingNotes |-> "Order processed successfully"]
        \* if (items && items.length > 10)
        reviewed == IF items.t = "array" /\ Len(items.v) > LargeOrderItems
                    THEN [newStatus |-> "PENDING_REVIEW",
                          processingNotes |-> "Large order requires manual review"]
                    ELSE confirmed
        totalValue == IF items.t = "array" THEN totalValueOf(items.v) ELSE 0
    IN  \* if (totalValue > 10000)
        IF totalValue > HighValueTotal
        THEN [newStatus |-> "PENDING_APPROVAL",
              processingNotes |-> "High-value order requires approval"]
        ELSE reviewed

(***************************************************************************)
(* orderProcessor: handler, one record of the batch.                       *)
(***************************************************************************)
\* Variant: the update is conditional on the order still being PENDING.
updateOrder_OnlyPending(st, orderId, outcome, fault, t) ==
    IF fault # NoFault THEN [ok |-> FALSE, store |-> st]
    ELSE IF orderId \notin DOMAIN st \/ st[orderId].status # "PENDING"
    THEN [ok |-> FALSE, store |-> st]
    ELSE [ok |-> TRUE,
          store |-> [st EXCEPT ![orderId] =
                        [@ EXCEPT !.status = outcome.newStatus,
                                  !.updatedAt = t,
                                  !.processingNotes = outcome.processingNotes]]]

\* Variant: the update is conditional on the order having no notes yet.
updateOrder_RejectDuplicate(st, orderId, outcome, fault, t) ==
    IF fault # NoFault THEN [ok |-> FALSE, store |-> st]
    ELSE IF orderId \notin DOMAIN st \/ st[orderId].processingNotes # NoAttribute
    THEN [ok |-> FALSE, store |-> st]
    ELSE [ok |-> TRUE,
          store |-> [st EXCEPT ![orderId] =
                        [@ EXCEPT !.status = outcome.newStatus,
                                  !.updatedAt = t,
                                  !.processingNotes = outcome.processingNotes]]]

\* Variant: the UpdateCommand without its ConditionExpression, which creates
\* the item it does not find.
updateOrder_Upsert(st, orderId, outcome, fault, t) ==
    IF fault # NoFault THEN [ok |-> FALSE, store |-> st]
    ELSE IF orderId \notin DOMAIN st
    THEN [ok |-> TRUE,
          store |-> Put(st, orderId,
                        [id |-> orderId, status |-> outcome.newStatus, updatedAt |-> t,
                         processingNotes |-> outcome.processingNotes])]
    ELSE [ok |-> TRUE,
          store |-> [st EXCEPT ![orderId] =
                        [@ EXCEPT !.status = outcome.newStatus,
                                  !.updatedAt = t,
                                  !.processingNotes = outcome.processingNotes]]]

\* Variant: a faulted UpdateCommand has written before it is rejected.
updateOrder_AppliedDespiteFault(st, orderId, outcome, fault, t) ==
    IF orderId \notin DOMAIN st THEN [ok |-> FALSE, store |-> st]
    ELSE [ok |-> fault = NoFault,
          store |-> [st EXCEPT ![orderId] =
                        [@ EXCEPT !.status = outcome.newStatus,
                                  !.updatedAt = t,
                                  !.processingNotes = outcome.processingNotes]]]

\* Variant: the update is rejected when the stored order was updated at a
\* later time than the one the update carries.
updateOrder_IfNotNewer(st, orderId, outcome, fault, t) ==
    IF fault # NoFault THEN [ok |-> FALSE, store |-> st]
    ELSE IF orderId \notin DOMAIN st \/ st[orderId].updatedAt > t
    THEN [ok |-> FALSE, store |-> st]
    ELSE [ok |-> TRUE,
          store |-> [st EXCEPT ![orderId] =
                        [@ EXCEPT !.status = outcome.newStatus,
                                  !.updatedAt = t,
                                  !.processingNotes = outcome.processingNotes]]]

\* Variant: the update also sets createdAt.
updateOrder_Recreated(st, orderId, outcome, fault, t) ==
    IF fault # NoFault THEN [ok |-> FALSE, store |-> st]
    ELSE IF orderId \notin DOMAIN st THEN [ok |-> FALSE, store |-> st]
    ELSE [ok |-> TRUE,
          store |-> [st EXCEPT ![orderId] =
                        [@ EXCEPT !.status = outcome.newStatus,
                                  !.createdAt = t,
                                  !.updatedAt = t,
                                  !.processingNotes = outcome.processingNotes]]]

\* The UpdateCommand on table st at time t; [ok, store].
updateOrder(st, orderId, outcome, fault, t) ==
    IF fault # NoFault THEN [ok |-> FALSE, store |-> st]
    ELSE IF orderId \notin DOMAIN st
    THEN \* ConditionExpression attribute_exists(id) fails
         [ok |-> FALSE, store |-> st]
    ELSE [ok |-> TRUE,
          store |-> [st EXCEPT ![orderId] =
                        [@ EXCEPT !.status = outcome.newStatus,
                                  !.updatedAt = t,
                                  !.processingNotes = outcome.processingNotes]]]

\* Variant: a message of an unknown type is logged and not reported failed.
processRecord_UnknownTypeDropped(st, body, fault, t) ==
    LET messageBody == JSONparse(body)
        type == Field(messageBody, "type")
        detail == Field(messageBody, "detail")
        orderId == Field(detail, "id")
        failure == [failed |-> TRUE, store |-> st, calls |-> << >>]
    IN  IF ~JSONparses(body) THEN failure
        ELSE IF messageBody.t \in {"null", "undefined"} THEN failure
        ELSE IF Falsy(type) \/ Falsy(detail) THEN failure
        ELSE IF type # Str(<<"OrderCreated">>) THEN [failure EXCEPT !.failed = FALSE]
        ELSE IF Falsy(orderId) THEN failure
        ELSE IF processOrderCreatedThrows(detail) THEN failure
        ELSE IF orderId.t # "string" THEN failure
        ELSE LET update == updateOrder(st, orderId.v, processOrderCreated(detail), fault, t)
             IN  [failed |-> ~update.ok, store |-> update.store,
                  calls |-> << "UpdateCommand" >>]

\* Variant: a fault of the UpdateCommand is logged and the record counts as
\* processed.
processRecord_FaultSwallowed(st, body, fault, t) ==
    LET messageBody == JSONparse(body)
        type == Field(messageBody, "type")
        detail == Field(messageBody, "detail")
        orderId == Field(detail, "id")
        failure == [failed |-> TRUE, store |-> st, calls |-> << >>]
    IN  IF ~JSONparses(body) THEN failure
        ELSE IF messageBody.t \in {"null", "undefined"} THEN failure
        ELSE IF Falsy(type) \/ Falsy(detail) THEN failure
        ELSE IF type # Str(<<"OrderCreated">>) THEN failure
        ELSE IF Falsy(orderId) THEN failure
        ELSE IF processOrderCreatedThrows(detail) THEN failure
        ELSE IF orderId.t # "string" THEN failure
        ELSE LET update == updateOrder(st, orderId.v, processOrderCreated(detail), fault, t)
             IN  [failed |-> ~update.ok /\ fault = NoFault, store |-> update.store,
                  calls |-> << "UpdateCommand" >>]

\* Variant: the rules are applied to the items of the stored order, not to
\* those of the event.
processRecord_FromStoredRecord(st, body, fault, t) ==
    LET messageBody == JSONparse(body)
        type == Field(messageBody, "type")
        detail == Field(messageBody, "detail")
        orderId == Field(detail, "id")
        failure == [failed |-> TRUE, store |-> st, calls |-> << >>]
        stored == IF orderId.t = "string" /\ orderId.v \in DOMAIN st
                  THEN [t |-> "object", items |-> jsonItems(st[orderId.v].items)]
                  ELSE detail
    IN  IF ~JSONparses(body) THEN failure
        ELSE IF messageBody.t \in {"null", "undefined"} THEN failure
        ELSE IF Falsy(type) \/ Falsy(detail) THEN failure
        ELSE IF type # Str(<<"OrderCreated">>) THEN failure
        ELSE IF Falsy(orderId) THEN failure
        ELSE IF processOrderCreatedThrows(detail) THEN failure
        ELSE IF orderId.t # "string" THEN failure
        ELSE LET update == updateOrder(st, orderId.v, processOrderCreated(stored), fault, t)
             IN  [failed |-> ~update.ok, store |-> update.store,
                  calls |-> << "UpdateCommand" >>]

\* One iteration of the loop over event.Records: [failed, store, calls],
\* failed meaning the messageId was pushed to batchItemFailures and calls
\* being the commands sent to the table.
processRecord(st, body, fault, t) ==
    LET messageBody == JSONparse(body)
        type == Field(messageBody, "type")
        detail == Field(messageBody, "detail")
        orderId == Field(detail, "id")
        failure == [failed |-> TRUE, store |-> st, calls |-> << >>]
    IN  IF ~JSONparses(body) THEN failure
        ELSE IF messageBody.t \in {"null", "undefined"} THEN failure
        ELSE IF Falsy(type) \/ Falsy(detail) THEN failure
        ELSE IF type # Str(<<"OrderCreated">>) THEN failure
        ELSE IF Falsy(orderId) THEN failure
        ELSE IF processOrderCreatedThrows(detail) THEN failure
        ELSE IF orderId.t # "string" THEN failure
        ELSE LET update == updateOrder(st, orderId.v, processOrderCreated(detail), fault, t)
             IN  [failed |-> ~update.ok, store |-> update.store,
                  calls |-> << "UpdateCommand" >>]


(***************************************************************************)
(* orderProcessor: handler, the whole batch.                               *)
(***************************************************************************)
\* Variant: the loop ends at the first record that fails; that record and
\* those after it are reported failed.
RECURSIVE processFrom_StopAtFailure(_, _, _, _, _, _)
processFrom_StopAtFailure(st, Records, bodies, faults, t, k) ==
    IF k > Len(Records) THEN [store |-> st, batchItemFailures |-> << >>]
    ELSE LET one == processRecord(st, bodies[k], faults[k], t)
             rest == processFrom_StopAtFailure(one.store, Records, bodies, faults, t, k + 1)
         IN  IF one.failed
             THEN [store |-> st,
                   batchItemFailures |-> SubSeq(Records, k, Len(Records))]
             ELSE [store |-> rest.store, batchItemFailures |-> rest.batchItemFailures]

\* The loop over event.Records from record k on.  Records is the sequence of
\* messageIds, bodies their bodies, faults[k] how record k's UpdateCommand
\* ends.  [store, batchItemFailures].
RECURSIVE processFrom(_, _, _, _, _, _)
processFrom(st, Records, bodies, faults, t, k) ==
    IF k > Len(Records) THEN [store |-> st, batchItemFailures |-> << >>]
    ELSE LET one == processRecord(st, bodies[k], faults[k], t)
             rest == processFrom(one.store, Records, bodies, faults, t, k + 1)
         IN  [store |-> rest.store,
              batchItemFailures |->
                 (IF one.failed THEN << Records[k] >> ELSE << >>)
                 \o rest.batchItemFailures]

orderProcessor(st, Records, bodies, faults, t) ==
    processFrom(st, Records, bodies, faults, t, 1)

\* The history after the batch: each record whose UpdateCommand was sent and
\* succeeded appends the status it wrote to the history of its order, in
\* batch order.
RECURSIVE historyFrom(_, _, _, _, _, _)
historyFrom(h, Records, bodies, failed, called, k) ==
    IF k > Len(Records) THEN h
    ELSE LET detail == JSONparse(bodies[k]).detail
             outcome == processOrderCreated(detail)
             h1 == IF Records[k] \in failed \/ ~called[k] THEN h
                   ELSE Put(h, detail.id.v,
                            Append(Lookup(h, detail.id.v, << >>),
                                   Write("processor", outcome.newStatus,
                                         outcome.processingNotes)))
         IN  historyFrom(h1, Records, bodies, failed, called, k + 1)

(***************************************************************************)
(* The queue and its Lambda event source.                                  *)
(***************************************************************************)
\* The sequences of at most n distinct elements of S.
RECURSIVE BatchesOf(_, _)
BatchesOf(S, n) ==
    IF n = 0 THEN { << >> }
    ELSE { << >> }
         \cup UNION { { << m >> \o b : b \in BatchesOf(S \ {m}, n - 1) } : m \in S }

Range(f) == { f[x] : x \in DOMAIN f }

\* Lambda receives the batch Records, runs the handler (faults[k] is how the
\* UpdateCommand of record k ends, NoFault if none is sent), and the queue
\* acts on the result: a message not reported failed is deleted, unless the queue
\* delivers it again (again); a failed one stays for redelivery until it has
\* been received MaxReceiveCount times, and is then moved to the DLQ.
ProcessBatch(Records, faults, again) ==
    LET bodies == [k \in 1..Len(Records) |-> channel[Records[k]].body]
        result == orderProcessor(store, Records, bodies, faults, now)
        \* whether record k got as far as its UpdateCommand
        called == [k \in 1..Len(Records) |->
                     processRecord(store, bodies[k], faults[k], now).calls # << >>]
        failed == Range(result.batchItemFailures)
        received == [m \in Range(Records) |-> channel[m].receiveCount + 1]
        dead == { m \in failed : received[m] >= MaxReceiveCount }
        kept == { m \in Range(Records) \ failed : m \in again /\ received[m] <= MaxRedeliver }
        deleted == (Range(Records) \ failed) \ kept
    IN  /\ Records # << >>
        /\ \A k \in 1..Len(Records) : called[k] \/ faults[k] = NoFault
        /\ store' = result.store
        /\ history' = historyFrom(history, Records, bodies, failed, called, 1)
        /\ channel' = [m \in DOMAIN channel \ (dead \cup deleted) |->
                          IF m \in Range(Records)
                          THEN [channel[m] EXCEPT !.receiveCount = received[m]]
                          ELSE channel[m]]
        /\ dlq' = dlq \cup dead
        /\ invocation' = [handler |-> "orderProcessor",
                          event |-> [k \in 1..Len(Records) |->
                                        [messageId |-> Records[k], body |-> bodies[k],
                                         ApproximateReceiveCount |-> received[Records[k]]]],
                          faults |-> faults,
                          response |-> [batchItemFailures |-> result.batchItemFailures],
                          awaited |-> invocation.awaited]
        /\ UNCHANGED << sent, now, issued, inflight >>

\* Lambda invokes the handler with an event that has no Records (a test
\* event, an invocation that is not from the queue): event.Records?.length
\* is logged as 0, and then 'for (const record of event.Records)' throws a
\* TypeError, outside every try, before anything is read or written.
InvokeWithoutRecords(event) ==
    /\ Falsy(Field(event, "Records"))
    /\ invocation' = [handler |-> "orderProcessor",
                      event |-> event,
                      faults |-> << >>,
                      response |-> [thrown |-> "TypeError"],
                      awaited |-> invocation.awaited]
    /\ UNCHANGED << store, channel, dlq, sent, now, history, issued, inflight >>

(***************************************************************************)
(* orderProcessor: two invocations at the same time.                       *)
(***************************************************************************)
\* updateParams for an OrderCreated record: the key, the outcome of
\* processOrderCreated and ':updatedAt', read from the clock when the
\* parameters are built.
updateParams(body, t) ==
    LET detail == JSONparse(body).detail
    IN  [orderId |-> detail.id.v, outcome |-> processOrderCreated(detail), updatedAt |-> t]

\* The queue hands message m to a worker, also while another worker holds
\* it (SQS delivers at least once); the worker parses the record, applies
\* the rules and builds its UpdateCommand, up to 'await ddbDocClient.send'.
BeginRecord(worker, m) ==
    /\ worker \notin DOMAIN inflight
    /\ m \in DOMAIN channel
    /\ processRecord(store, channel[m].body, NoFault, now).calls # << >>
    /\ inflight' = Put(inflight, worker,
                       [messageId |-> m,
                        body |-> channel[m].body,
                        ApproximateReceiveCount |-> channel[m].receiveCount + 1,
                        params |-> updateParams(channel[m].body, now)])
    /\ channel' = [channel EXCEPT ![m].receiveCount = @ + 1]
    /\ UNCHANGED << store, dlq, sent, now, invocation, history, issued >>

\* DynamoDB applies the UpdateCommand of a worker, the handler returns and
\* the queue deletes the message unless it was reported failed.
CompleteRecord(worker) ==
    /\ worker \in DOMAIN inflight
    /\ LET job == inflight[worker]
           orderId == job.params.orderId
           update == updateOrder(store, orderId, job.params.outcome, NoFault,
                                 job.params.updatedAt)
       IN  /\ store' = update.store
           /\ history' =
                IF update.ok
                THEN Put(history, orderId,
                         Append(Lookup(history, orderId, << >>),
                                Write("processor", job.params.outcome.newStatus,
                                      job.params.outcome.processingNotes)))
                ELSE history
           /\ channel' = IF update.ok
                         THEN [m \in DOMAIN channel \ {job.messageId} |-> channel[m]]
                         ELSE channel
           /\ invocation' =
                [handler |-> "orderProcessor",
                 event |-> << [messageId |-> job.messageId, body |-> job.body,
                               ApproximateReceiveCount |-> job.ApproximateReceiveCount] >>,
                 faults |-> << NoFault >>,
                 response |-> [batchItemFailures |->
                                  IF update.ok THEN << >> ELSE << job.messageId >>],
                 awaited |-> invocation.awaited]
    /\ inflight' = [w \in DOMAIN inflight \ {worker} |-> inflight[w]]
    /\ UNCHANGED << dlq, sent, now, issued >>

(***************************************************************************)
(* The environment.                                                        *)
(***************************************************************************)
\* A manual cancellation of an order that is still PENDING, written to the
\* table by something other than these handlers.
ExternalCancel(id) ==
    /\ id \in DOMAIN store
    /\ store[id].status = "PENDING"
    /\ store' = [store EXCEPT ![id] = [@ EXCEPT !.status = "CANCELLED", !.updatedAt = now]]
    /\ history' = [history EXCEPT ![id] =
                        Append(@, Write("external", "CANCELLED", store[id].processingNotes))]
    /\ UNCHANGED << channel, dlq, sent, now, invocation, issued, inflight >>

\* Something other than the create handler sends a message to the queue.
ForeignSend(body) ==
    /\ sent < MaxForeign
    /\ sent' = sent + 1
    /\ channel' = Put(channel, sent + 1, [body |-> body, receiveCount |-> 0])
    /\ UNCHANGED << store, dlq, now, invocation, history, issued, inflight >>

Tick ==
    /\ now < MaxTime
    /\ now' = now + 1
    /\ UNCHANGED << store, channel, dlq, sent, invocation, history, issued, inflight >>

(***************************************************************************)
(* healthCheck.                                                            *)
(***************************************************************************)
\* The decimal digits of n >= 0: SQS returns its attributes as strings.
RECURSIVE Decimal(_)
Decimal(n) ==
    LET digits == << "0", "1", "2", "3", "4", "5", "6", "7", "8", "9" >>
    IN  IF n < 10 THEN << digits[n + 1] >>
        ELSE Decimal(n \div 10) \o << digits[(n % 10) + 1] >>

\* GetQueueAttributes for ApproximateNumberOfMessages on the queue ch.
getQueueAttributes(ch, fault) ==
    IF fault # NoFault THEN [ok |-> FALSE, code |-> fault]
    ELSE [ok |-> TRUE,
          Attributes |-> [ApproximateNumberOfMessages |->
                              Str(Decimal(Cardinality(DOMAIN ch)))]]

\* checkDynamoDBHealth sends no command and reports healthy.
checkDynamoDBHealth ==
    [status |-> "healthy", message |-> "DynamoDB connection successful"]

\* Variant: the error of the queue check is thrown on to the handler.
checkSQSHealth_Rethrows(ch, queueUrl, fault) ==
    IF Falsy(queueUrl)
    THEN [status |-> "healthy", message |-> "SQS not configured for this function"]
    ELSE LET result == getQueueAttributes(ch, fault)
         IN  IF result.ok
             THEN [status |-> "healthy",
                   queueUrl |-> queueUrl,
                   messageCount |-> result.Attributes.ApproximateNumberOfMessages,
                   message |-> "SQS connection successful"]
             ELSE [thrown |-> result.code, status |-> "unhealthy"]

\* checkSQSHealth with process.env.QUEUE_URL = queueUrl: its catch turns an
\* error of the command into a status.
checkSQSHealth(ch, queueUrl, fault) ==
    IF Falsy(queueUrl)
    THEN [status |-> "healthy", message |-> "SQS not configured for this function"]
    ELSE LET result == getQueueAttributes(ch, fault)
         IN  IF result.ok
             THEN [status |-> "healthy",
                   queueUrl |-> queueUrl,
                   messageCount |-> result.Attributes.ApproximateNumberOfMessages,
                   message |-> "SQS connection successful"]
             ELSE [status |-> "unhealthy", error |-> result.code]

\* The handler: the response.  The overall status is the literal 'healthy'
\* whatever the checks returned; the catch answers 503 when a check throws.
healthResponse(ch, queueUrl, fault) ==
    LET tableStatus == checkDynamoDBHealth
        queueStatus == checkSQSHealth(ch, queueUrl, fault)
    IN  IF "thrown" \in DOMAIN queueStatus
        THEN [statusCode |-> 503,
              data |-> [status |-> "unhealthy", error |-> queueStatus.thrown]]
        ELSE [statusCode |-> 200,
              data |-> [status |-> "healthy",
                        services |-> [dynamodb |-> tableStatus,
                                      sqs |-> queueStatus,
                                      lambda |-> [status |-> "healthy"]]]]

healthCheck(queueUrl, fault) ==
    /\ Falsy(queueUrl) => fault = NoFault
    /\ invocation' =
            [handler |-> "healthCheck",
             event |-> [QUEUE_URL |-> queueUrl],
             calls |-> IF ~Falsy(queueUrl) THEN << "GetQueueAttributesCommand" >>
                       ELSE << >>,
             faults |-> IF ~Falsy(queueUrl) THEN << fault >> ELSE << >>,
             response |-> healthResponse(channel, queueUrl, fault),
             awaited |-> invocation.awaited]
    /\ UNCHANGED << store, channel, dlq, sent, now, history, issued, inflight >>

(***************************************************************************)
(* The system.                                                             *)
(***************************************************************************)
CreateFaults == { "InternalServerError" }
ReadFaults ==
    { "ResourceNotFoundException", "ProvisionedThroughputExceededException",
      "InternalServerError" }
UpdateFaults == { "ProvisionedThroughputExceededException" }

Create(bodies, ids) ==
    \E body \in bodies, orderId \in ids,
       putFault \in {NoFault} \cup CreateFaults, sendFault \in {NoFault} \cup ChannelFaults :
        httpCreateOrder(body, orderId, putFault, sendFault)

Get(pathIds) ==
    \E pathId \in pathIds, fault \in {NoFault} \cup ReadFaults : httpGetOrder(pathId, fault)

Process ==
    \E Records \in BatchesOf(DOMAIN channel, MaxBatch) :
        \E faults \in [1..Len(Records) -> {NoFault} \cup UpdateFaults],
           again \in SUBSET Range(Records) :
            ProcessBatch(Records, faults, again)

Cancel == \E id \in DOMAIN store : ExternalCancel(id)

\* The service with one order id (uuid() returning the same string again
\* and again), small orders and all handlers.
TheId == UuidString(TRUE, "4", "a", 1)

CreateBodies ==
    { NoBody, Garbage }
    \cup { JSONstringify(o) : o \in {SmallOrder, NoPriceOrder} \cup InvalidOrders }

\* 'nonexistent-id', the id of the demo's "order not found" request.
NonexistentId == UuidString(FALSE, "n", "o", 3)
\* '00000000-0000-0000-0000-000000000000', the id of the guide's 404 request.
NilUuid == UuidString(TRUE, "0", "0", 4)

GetIds ==
    { undefined } \cup { Str(id) : id \in OrderIds }
    \cup { Str(NonexistentId), Str(NilUuid) }

Next ==
    \/ Create(CreateBodies, {TheId})
    \/ Get(GetIds)
    \/ Process
    \/ Cancel
    \/ Tick

Spec == Init /\ [][Next]_vars

\* Two order ids and one small order, the create handler and the processor:
\* the create handler is the only producer of the queue.
PairBodies == { JSONstringify(SmallOrder) }

NextPair ==
    \/ Create(PairBodies, OrderIds)
    \/ Process

SpecPair == Init /\ [][NextPair]_vars

\* One order id, and a queue that other producers write to as well: text
\* that is not JSON, null, messages without detail, of another type or
\* without detail.id, and an OrderCreated event for the id, which is there
\* before or after the order is.
NoDetailMessage == [t |-> "object", type |-> Str(<<"OrderCreated">>)]
UnknownTypeMessage ==
    [t |-> "object", type |-> Str(<<"OrderShipped">>),
     detail |-> [t |-> "object", id |-> Str(TheId)]]
NoIdMessage ==
    [t |-> "object", type |-> Str(<<"OrderCreated">>),
     detail |-> [t |-> "object", customerName |-> Str(<<"A">>)]]
EarlyMessage == eventMessage(newOrder(SmallOrder, TheId, 0), 0)

ForeignBodies ==
    { Garbage }
    \cup { JSONstringify(v) :
             v \in { null, NoDetailMessage, UnknownTypeMessage, NoIdMessage, EarlyMessage } }

Foreign == \E body \in ForeignBodies : ForeignSend(body)

\* The queue hands over a batch and keeps exactly the messages reported failed.
Deliver ==
    \E Records \in BatchesOf(DOMAIN channel, MaxBatch) :
        \E faults \in [1..Len(Records) -> {NoFault} \cup UpdateFaults] :
            ProcessBatch(Records, faults, {})

\* A create request for the small order that meets no fault.
CreateSmall == httpCreateOrder(JSONstringify(SmallOrder), TheId, NoFault, NoFault)

NextQueue ==
    \/ CreateSmall
    \/ Foreign
    \/ Deliver

SpecQueue == Init /\ [][NextQueue]_vars

\* One order id, the three handlers, and a queue and a table that do not fail
\* for ever: a batch whose updates meet no fault is delivered again and again
\* as long as there are messages to deliver.
FaultFree ==
    \E Records \in BatchesOf(DOMAIN channel, MaxBatch) :
        ProcessBatch(Records, [k \in 1..Len(Records) |-> NoFault], {})

NextFair ==
    \/ CreateSmall
    \/ Get({ Str(TheId) })
    \/ Process
    \/ Tick

SpecFair == Init /\ [][NextFair]_vars /\ SF_vars(FaultFree)

\* The orders of the demo, created and processed.
DemoBodies == { JSONstringify(o) : o \in { SmallOrder, DemoLargeOrder } }

NextDemo ==
    \/ Create(DemoBodies, {TheId})
    \/ Process
    \/ Tick

SpecDemo == Init /\ [][NextDemo]_vars

\* The same with orders of every size and value, for the business rules.
RuleBodies == { JSONstringify(o) : o \in ValidOrders }

NextRules ==
    \/ Create(RuleBodies, {TheId})
    \/ Process
    \/ Cancel
    \/ Tick

SpecRules == Init /\ [][NextRules]_vars

\* The list handler over two order ids: orders are created and processed
\* without faults, and listed and read in between.
TwoLineOrder == OrderData(Str(<<"A">>), Arr(<< GoodItem(2, 10), GoodItem(3, 5) >>))

CreateTwoLine ==
    \E orderId \in OrderIds :
        httpCreateOrder(JSONstringify(TwoLineOrder), orderId, NoFault, NoFault)

ListLimits ==
    { undefined, Str(<<"1">>), Str(<<"2">>), Str(<<"0">>), Str(<<"-", "1">>),
      Str(<<"1", "0", "0">>), Str(<<"1", "0", "1">>), Str(<<"x">>), Str(<<"2", "x">>) }

\* The pagination tokens a client may send: strings that are not base64 of
\* JSON, JSON that is no object, an object that is no key, and keys of the
\* table and of the index.
ForgedTokens ==
    { NotBase64,
      Base64(JSONstringify(null)),
      Base64(JSONstringify(Num(5))),
      Base64(JSONstringify([t |-> "object", page |-> Num(2)])) }
KeyTokens ==
    { Base64(JSONstringify(TableKey(id))) : id \in OrderIds }
    \cup { Base64(JSONstringify(IndexKey([id |-> id, status |-> "PENDING", createdAt |-> 0]))) :
             id \in OrderIds }

ListRequests ==
    { null }
    \cup { QueryString(limit, undefined, undefined, undefined) : limit \in ListLimits }
    \cup { QueryString(limit, Str(<< status >>), undefined, undefined) :
             limit \in { undefined, Str(<<"1">>) },
             status \in { "PENDING", "CONFIRMED", "SHIPPED", "pending" } }
    \cup { QueryString(undefined, undefined, sortOrder, undefined) :
             sortOrder \in { Str(<<"asc">>), Str(<<"ASC">>), Str(<<"DESC">>), Str(<<"up">>) } }
    \cup { QueryString(Str(<<"1">>), status, undefined, nextToken) :
             status \in { undefined, Str(<<"PENDING">>) },
             nextToken \in ForgedTokens \cup KeyTokens }

\* The requests whose read may meet a fault.
FaultedRequests == { null }

List(requests, faulted) ==
    \E queryStringParameters \in requests, fault \in {NoFault} \cup ReadFaults :
        /\ fault = NoFault \/ queryStringParameters \in faulted
        /\ httpListOrders(queryStringParameters, fault)

NextList ==
    \/ CreateTwoLine
    \/ FaultFree
    \/ Tick
    \/ List(ListRequests, FaultedRequests)
    \/ Get({ Str(id) : id \in OrderIds })

SpecList == Init /\ [][NextList]_vars

\* One order id, every handler, and every fault of the table and the queue;
\* the processor is also invoked with the empty event {}.
EmptyEvent == [t |-> "object"]

NextFaults ==
    \/ Create({ JSONstringify(SmallOrder), Garbage }, {TheId})
    \/ Get({ undefined, Str(TheId) })
    \/ List({ null, QueryString(undefined, Str(<<"PENDING">>), undefined, undefined) },
            { null, QueryString(undefined, Str(<<"PENDING">>), undefined, undefined) })
    \/ Process
    \/ InvokeWithoutRecords(EmptyEvent)

SpecFaults == Init /\ [][NextFaults]_vars

\* One order id and orders around the high-value threshold, one of them
\* priced below the cent; orders are created, processed, read and listed.
TotalsBodies ==
    { JSONstringify(order) :
        order \in { TwoLineOrder, NoPriceOrder, BoundaryOrder, OneDearOrder, SubCentOrder } }

CreateTotals ==
    \E body \in TotalsBodies : httpCreateOrder(body, TheId, NoFault, NoFault)

NextTotals ==
    \/ CreateTotals
    \/ FaultFree
    \/ Get({ Str(TheId) })
    \/ List({ null, QueryString(undefined, Str(<<"PENDING_APPROVAL">>), undefined, undefined) },
            {})
    \/ Tick

SpecTotals == Init /\ [][NextTotals]_vars

\* One order id, an order of each outcome of the rules, and workers that
\* may hold the same message at the same time.
Workers == 1..MaxWorkers

CreateRuled ==
    \E order \in { SmallOrder, OneDearOrder } :
        httpCreateOrder(JSONstringify(order), TheId, NoFault, NoFault)

Begin == \E worker \in Workers, m \in DOMAIN channel : BeginRecord(worker, m)

Complete == \E worker \in Workers : CompleteRecord(worker)

NextWorkers ==
    \/ CreateRuled
    \/ Begin
    \/ Complete
    \/ Cancel
    \/ Tick

SpecWorkers == Init /\ [][NextWorkers]_vars

\* One order id, a small order or one of high value, and a producer that
\* sends OrderCreated events for the id whose detail has no items, null
\* items, or the items of an order of each outcome, whatever is stored;
\* the updates meet no fault.
EventFor(items) ==
    [t |-> "object",
     type |-> Str(<<"OrderCreated">>),
     detail |-> [t |-> "object", id |-> Str(TheId), items |-> items]]

NoItemsEvent ==
    [t |-> "object",
     type |-> Str(<<"OrderCreated">>),
     detail |-> [t |-> "object", id |-> Str(TheId)]]

StoredOrders == { SmallOrder, OneDearOrder }

EventBodies ==
    { JSONstringify(NoItemsEvent), JSONstringify(EventFor(null)) }
    \cup { JSONstringify(EventFor(o.items)) :
             o \in { SmallOrder, ElevenCheapOrder, OneDearOrder } }

CreateStored ==
    \E order \in StoredOrders :
        httpCreateOrder(JSONstringify(order), TheId, NoFault, NoFault)

SendEvent == \E body \in EventBodies : ForeignSend(body)

NextEvents ==
    \/ CreateStored
    \/ SendEvent
    \/ FaultFree

SpecEvents == Init /\ [][NextEvents]_vars

\* The health check next to the create handler and the processor: the
\* function has a QUEUE_URL or none, and the queue answers or refuses.
Health ==
    \E queueUrl \in { undefined, Str(<<"https://sqs/orders">>) },
       fault \in { NoFault, "AccessDenied", "AWS.SimpleQueueService.NonExistentQueue" } :
        healthCheck(queueUrl, fault)

NextHealth ==
    \/ CreateTwoLine
    \/ FaultFree
    \/ Health
    \/ Tick

SpecHealth == Init /\ [][NextHealth]_vars


(***************************************************************************)
(* Properties.                                                             *)
(***************************************************************************)
\* sum(qty * price) over the items an event carries.
RECURSIVE SumQtyTimesPrice(_)
SumQtyTimesPrice(items) ==
    IF items = << >> THEN 0
    ELSE Head(items).qty.v * Head(items).price.v + SumQtyTimesPrice(Tail(items))

\* The OrderCreated events of the batch the processor handled last whose
\* order is in the table and whose UpdateCommand met no fault: for each,
\* its messageId, its order id and its items.
HandledEvents ==
    IF invocation.handler # "orderProcessor" THEN {}
    ELSE { [messageId |-> invocation.event[k].messageId,
            id |-> JSONparse(invocation.event[k].body).detail.id.v,
            items |-> JSONparse(invocation.event[k].body).detail.items.v] :
           k \in { j \in DOMAIN invocation.event :
                      /\ invocation.faults[j] = NoFault
                      /\ JSONparse(invocation.event[j].body).detail.id.v \in DOMAIN store } }

C2_LargeOrderNeedsReview ==
    \A e \in HandledEvents :
        (Len(e.items) > 10 /\ SumQtyTimesPrice(e.items) <= Amount(10000)) =>
            /\ store[e.id].status = "PENDING_REVIEW"
            /\ store[e.id].processingNotes = "Large order requires manual review"

\* C2 happens: an event with 11 items worth at most 10000 was handled.
C2_Witness ==
    \E e \in HandledEvents :
        /\ Len(e.items) = 11
        /\ SumQtyTimesPrice(e.items) <= Amount(10000)
        /\ store[e.id].status = "PENDING_REVIEW"

\* C3: an event with at most 10 items worth at most 10000 leaves its order
\* CONFIRMED, both boundaries included.
C3_OrdinaryOrderConfirmed ==
    \A e \in HandledEvents :
        (Len(e.items) <= 10 /\ SumQtyTimesPrice(e.items) <= Amount(10000)) =>
            store[e.id].status = "CONFIRMED"

\* C3 happens on both boundaries at once: exactly 10 items worth exactly 10000.
C3_Witness ==
    \E e \in HandledEvents :
        /\ Len(e.items) = 10
        /\ SumQtyTimesPrice(e.items) = Amount(10000)
        /\ store[e.id].status = "CONFIRMED"


\* The messageIds the processor reported failed in its last invocation.
ReportedFailed ==
    IF invocation.handler # "orderProcessor" THEN {}
    ELSE Range(invocation.response.batchItemFailures)

\* The number of writes by the processor among the writes h.
ProcessorWrites(h) == Cardinality({ i \in DOMAIN h : h[i].by = "processor" })

Last(h) == h[Len(h)]

\* C4 as claimed: a status other than PENDING is never changed to a different
\* value by any step.
C4_StatusChangesOnlyWhilePending ==
    [][\A id \in DOMAIN store :
          store[id].status # "PENDING" => store'[id].status = store[id].status]_vars

\* C5 as claimed: the processor updates an order at most once, and exactly
\* once when it has handled the order's event.
C5_UpdatedExactlyOnce ==
    /\ \A id \in DOMAIN history : ProcessorWrites(history[id]) <= 1
    /\ \A e \in HandledEvents : ProcessorWrites(history[e.id]) = 1

\* C6: handling an event again is not reported as a failure, and two
\* successive updates by the processor write the same status and notes.
C6_ReprocessingKeepsStatus ==
    /\ \A e \in HandledEvents :
          /\ e.messageId \notin ReportedFailed
          /\ store[e.id].status = Last(history[e.id]).status
          /\ store[e.id].processingNotes = Last(history[e.id]).processingNotes
    /\ \A id \in DOMAIN history : \A i \in 1..(Len(history[id]) - 1) :
          (history[id][i].by = "processor" /\ history[id][i + 1].by = "processor") =>
              /\ history[id][i + 1].status = history[id][i].status
              /\ history[id][i + 1].processingNotes = history[id][i].processingNotes

\* C6 happens: the event was handled a second time right after the first,
\* at a later time than the order was created.
C6_Witness ==
    \E e \in HandledEvents :
        LET h == history[e.id]
        IN  /\ Len(h) >= 3
            /\ h[Len(h)].by = "processor"
            /\ h[Len(h) - 1].by = "processor"
            /\ store[e.id].updatedAt > store[e.id].createdAt

\* C7: whatever the status of the order was, CANCELLED included, a delivery
\* of its event leaves it with the status the processor wrote, never
\* CANCELLED, and is not reported failed.
C7_CancelledIsOverwritten ==
    \A e \in HandledEvents :
        /\ Last(history[e.id]).by = "processor"
        /\ store[e.id].status = Last(history[e.id]).status
        /\ store[e.id].status \in ProcessorStatuses
        /\ e.messageId \notin ReportedFailed

\* C7 happens: the order was CANCELLED when its event was delivered, and is
\* CONFIRMED now.
C7_Witness ==
    \E e \in HandledEvents :
        LET h == history[e.id]
        IN  /\ Len(h) >= 2
            /\ h[Len(h) - 1].status = "CANCELLED"
            /\ h[Len(h) - 1].by = "external"
            /\ store[e.id].status = "CONFIRMED"


\* The status the business rule gives an order with these stored items.
RuleStatus(items) ==
    IF orderTotal(items) > Amount(10000) THEN "PENDING_APPROVAL"
    ELSE IF Len(items) > 10 THEN "PENDING_REVIEW"
    ELSE "CONFIRMED"

\* The last invocation was a GetByID for the id of the 201 response the
\* client received just before, the table served the read, and nothing but
\* the handlers has written to the order.
ReadRightAfterCreate ==
    /\ invocation.handler = "httpGetOrder"
    /\ invocation.afterCreate
    /\ invocation.calls = << "GetCommand" >>
    /\ \A i \in DOMAIN history[invocation.event.v] :
          history[invocation.event.v][i].by # "external"

\* C8 as claimed: the order read right after its 201 response is PENDING.
C8_ReadAfterCreateIsPending ==
    ReadRightAfterCreate =>
        /\ invocation.response.statusCode = 200
        /\ invocation.response.data.order.status = "PENDING"

\* C8 amended: the read returns the order, PENDING as long as the processor
\* has not handled its event and with the status of the business rule once
\* it has.
C8_ReadAfterCreateIsPendingOrProcessed ==
    ReadRightAfterCreate =>
        LET id == invocation.event.v
            order == invocation.response.data.order
        IN  /\ invocation.response.statusCode = 200
            /\ order.id = id
            /\ issued[id] = 1
            /\ IF ProcessorWrites(history[id]) = 0
               THEN order.status = "PENDING"
               ELSE order.status = RuleStatus(order.items)

\* C8 happens: the processor ran between the 201 response and the read.
C8_Witness ==
    /\ ReadRightAfterCreate
    /\ invocation.response.statusCode = 200
    /\ invocation.response.data.order.status = "CONFIRMED"

\* C9: no id is carried by two 201 responses, the record under an id is the
\* one created first (the intake wrote it once), and a create answered 409
\* sent nothing to the table or the queue.
C9_IdsAreUnique ==
    /\ \A id \in DOMAIN issued : issued[id] <= 1
    /\ \A id \in DOMAIN store :
          /\ store[id].id = id
          /\ history[id][1].by = "intake"
          /\ Cardinality({ i \in DOMAIN history[id] : history[id][i].by = "intake" }) = 1
    /\ (invocation.handler = "httpCreateOrder" /\ invocation.response.statusCode = 409) =>
          invocation.calls = << >>

\* C9 happens: uuid() repeated an id that had been issued, and the create
\* was answered 409.
C9_Witness ==
    /\ invocation.handler = "httpCreateOrder"
    /\ invocation.response.statusCode = 409
    /\ \E id \in DOMAIN issued : issued[id] = 1 /\ id \in DOMAIN store

\* The request body is an object whose items list is empty or holds an item
\* with qty <= 0.
EmptyItemsOrBadQty(body) ==
    /\ body.kind = "json"
    /\ body.value.t = "object"
    /\ Field(body.value, "items").t = "array"
    /\ LET items == Field(body.value, "items").v
       IN  \/ Len(items) = 0
           \/ \E k \in 1..Len(items) :
                 /\ Field(items[k], "qty").t = "number"
                 /\ Field(items[k], "qty").v <= 0

\* C10 as claimed: a create request with no items, or with an item of
\* qty <= 0, is answered 400 and sends nothing to the table or the queue.
C10_BadItemsRejected ==
    (invocation.handler = "httpCreateOrder" /\ EmptyItemsOrBadQty(invocation.event)) =>
        /\ invocation.response.statusCode = 400
        /\ invocation.calls = << >>


\* The value is an order the interface accepts: a customerName that is a
\* string with something other than blanks in it, and a non-empty list of
\* items, each an object with a non-empty string sku, a number qty > 0 and
\* either no price or a number price >= 0.
IsValidOrder(value) ==
    /\ value.t = "object"
    /\ Field(value, "customerName").t = "string"
    /\ \E i \in DOMAIN Field(value, "customerName").v :
          Field(value, "customerName").v[i] # " "
    /\ Field(value, "items").t = "array"
    /\ Field(value, "items").v # << >>
    /\ \A k \in DOMAIN Field(value, "items").v :
          LET item == Field(value, "items").v[k]
          IN  /\ item.t = "object"
              /\ Field(item, "sku").t = "string" /\ Field(item, "sku").v # << >>
              /\ Field(item, "qty").t = "number" /\ Field(item, "qty").v > 0
              /\ \/ Field(item, "price").t = "undefined"
                 \/ Field(item, "price").t = "number" /\ Field(item, "price").v >= 0

\* The last invocation was a create request whose body is missing, is not
\* JSON, or is JSON for something that is not a valid order.
BadCreateRequest ==
    /\ invocation.handler = "httpCreateOrder"
    /\ \/ invocation.event.kind \in {"absent", "garbage"}
       \/ invocation.event.kind = "json" /\ ~IsValidOrder(invocation.event.value)

\* C11 as claimed: a create request with a missing, unparsable or invalid
\* body is answered 400 and sends nothing to the table or the queue.
C11_BadBodyAnswered400 ==
    BadCreateRequest =>
        /\ invocation.response.statusCode = 400
        /\ invocation.calls = << >>

\* The rules a parsed body object violates, as pairs of an item index (-1
\* for the body itself) and the text of the rule.
Violations(value) ==
    LET customerName == Field(value, "customerName")
        items == Field(value, "items")
        nameOk == customerName.t = "string"
                  /\ \E i \in DOMAIN customerName.v : customerName.v[i] # " "
        itemsOk == items.t = "array" /\ items.v # << >>
        skuOk(item) == Field(item, "sku").t = "string" /\ Field(item, "sku").v # << >>
        qtyOk(item) == Field(item, "qty").t = "number" /\ Field(item, "qty").v > 0
        priceOk(item) == \/ Field(item, "price").t = "undefined"
                         \/ Field(item, "price").t = "number" /\ Field(item, "price").v >= 0
    IN  (IF nameOk THEN {}
         ELSE { [item |-> -1,
                 text |-> "customerName is required and must be a non-empty string"] })
        \cup (IF itemsOk THEN {}
              ELSE { [item |-> -1, text |-> "items must be a non-empty array"] })
        \cup (IF ~itemsOk THEN {}
              ELSE UNION { 
                (IF skuOk(items.v[k]) THEN {}
                 ELSE { [item |-> k - 1, text |-> "sku is required and must be a string"] })
                \cup (IF qtyOk(items.v[k]) THEN {}
                      ELSE { [item |-> k - 1,
                              text |-> "qty is required and must be a positive number"] })
                \cup (IF priceOk(items.v[k]) THEN {}
                      ELSE { [item |-> k - 1,
                              text |-> "price must be a non-negative number"] })
                : k \in DOMAIN items.v })

\* C12: for a request whose body parses to an object, a 400 response lists
\* each violated rule exactly once and nothing else, and the handler goes on
\* to create the order (uuid() is called) iff no rule is violated.
C12_EveryViolationReported ==
    (/\ invocation.handler = "httpCreateOrder"
     /\ invocation.event.kind = "json"
     /\ invocation.event.value.t = "object") =>
        LET expected == Violations(invocation.event.value)
            message == invocation.response.message
        IN  /\ invocation.response.statusCode = 400 =>
                  /\ Range(message) = expected
                  /\ Len(message) = Cardinality(expected)
            /\ (invocation.uuid # << >>) <=> (expected = {})

\* C12 happens: a 400 response that lists five violations, of the body and
\* of two items.
C12_Witness ==
    /\ invocation.handler = "httpCreateOrder"
    /\ invocation.event.kind = "json"
    /\ invocation.event.value.t = "object"
    /\ invocation.response.statusCode = 400
    /\ Len(invocation.response.message) = 5
    /\ \E i, j \in DOMAIN invocation.response.message :
          /\ invocation.response.message[i].item = -1
          /\ invocation.response.message[j].item = 1


\* The order ids of the OrderCreated messages waiting in the queue.
QueuedIds ==
    { JSONparse(channel[m].body).detail.id.v : m \in DOMAIN channel }

\* C13: a create request whose message could not be sent after the order
\* was stored is answered 500 and leaves the order stored and PENDING; an
\* order stored without a 201 has no message in the queue, and nothing but
\* the create handler ever writes to it.
C13_UnpublishedOrderStaysPending ==
    /\ (invocation.handler = "httpCreateOrder" /\ invocation.calls = << "PutCommand" >>) =>
          /\ invocation.response.statusCode = 500
          /\ invocation.uuid[1] \in DOMAIN store
          /\ Lookup(issued, invocation.uuid[1], 0) = 0
    /\ \A id \in DOMAIN store :
          Lookup(issued, id, 0) = 0 =>
              /\ store[id].status = "PENDING"
              /\ store[id].updatedAt = store[id].createdAt
              /\ history[id] = << Write("intake", "PENDING", NoAttribute) >>
              /\ id \notin QueuedIds

\* C13 happens: one order was stored but not published and is PENDING,
\* while the processor has just handled the event of the other order.
C13_Witness ==
    /\ \E id \in DOMAIN store : Lookup(issued, id, 0) = 0 /\ store[id].status = "PENDING"
    /\ HandledEvents # {}

\* The number of 201 responses so far.
RECURSIVE Created(_)
Created(ids) ==
    IF ids = {} THEN 0
    ELSE LET id == CHOOSE x \in ids : TRUE
         IN  issued[id] + Created(ids \ {id})

\* C14: the create handler sends a message iff it answers 201, the message
\* it sends is the OrderCreated event of the id in the response, the queue
\* has accepted as many messages as there were 201 responses, at most one
\* per id, and no two messages in the queue are for the same id.
C14_OneEventPerCreation ==
    /\ invocation.handler = "httpCreateOrder" =>
          /\ ("SendMessageCommand" \in Range(invocation.calls))
                <=> (invocation.response.statusCode = 201)
          /\ invocation.response.statusCode = 201 =>
                /\ sent \in DOMAIN channel
                /\ JSONparse(channel[sent].body).type = Str(<<"OrderCreated">>)
                /\ JSONparse(channel[sent].body).detail.id.v = invocation.response.data.id
    /\ \A id \in DOMAIN issued : issued[id] <= 1
    /\ sent = Created(DOMAIN issued)
    /\ \A m, n \in DOMAIN channel :
          JSONparse(channel[m].body).detail.id = JSONparse(channel[n].body).detail.id
              => m = n
    /\ \A id \in QueuedIds : Lookup(issued, id, 0) = 1

\* C14 happens: both ids were created and published, and the last create
\* request failed on the condition or on a fault.
C14_Witness ==
    /\ sent = 2
    /\ invocation.handler = "httpCreateOrder"
    /\ invocation.response.statusCode \in {409, 500}
    /\ invocation.uuid # << >>

\* C15: a create request whose PutCommand reaches the table with an id that
\* is already there is answered 409 and changes neither the table nor the
\* queue.
C15_ConflictChangesNothing ==
    [][(/\ invocation' # invocation
        /\ invocation'.handler = "httpCreateOrder"
        /\ invocation'.uuid # << >>
        /\ invocation'.uuid[1] \in DOMAIN store
        /\ invocation'.faults[1] = NoFault) =>
           /\ invocation'.response.statusCode = 409
           /\ invocation'.response.error = "Conflict"
           /\ invocation'.calls = << >>
           /\ store' = store
           /\ channel' = channel
           /\ sent' = sent]_vars

\* C15 happens: a create request was answered 409 for an id whose record
\* the processor had already confirmed, and the record is still confirmed.
C15_Witness ==
    /\ invocation.handler = "httpCreateOrder"
    /\ invocation.response.statusCode = 409
    /\ store[invocation.uuid[1]].status = "CONFIRMED"
    /\ issued[invocation.uuid[1]] = 1


\* The body is an OrderCreated event that names an order.
IsOrderCreated(body) ==
    /\ body.kind = "json"
    /\ body.value.t = "object"
    /\ Field(body.value, "type").t = "string"
    /\ Field(body.value, "type").v = <<"OrderCreated">>
    /\ Field(body.value, "detail").t = "object"
    /\ Field(Field(body.value, "detail"), "id").t = "string"

EventId(body) == body.value.detail.id.v

\* The attributes of an order the create handler stored.
OrderAttributes ==
    { "id", "customerName", "items", "status", "createdAt", "updatedAt", "processingNotes" }

\* C16: a record whose OrderCreated event names an id that has no record in
\* the table is reported in batchItemFailures, and the processor creates no
\* record: every record in the table is an order a create request stored.
C16_UpdateOfMissingOrderRejected ==
    /\ invocation.handler = "orderProcessor" =>
          \A j \in DOMAIN invocation.event :
              (/\ IsOrderCreated(invocation.event[j].body)
               /\ EventId(invocation.event[j].body) \notin DOMAIN store) =>
                  invocation.event[j].messageId \in ReportedFailed
    /\ \A id \in DOMAIN store :
          /\ Lookup(issued, id, 0) = 1
          /\ DOMAIN store[id] = OrderAttributes

\* C16 happens: the UpdateCommand of an OrderCreated event was sent and met
\* no fault, the table is still empty and the message was reported failed.
C16_Witness ==
    /\ invocation.handler = "orderProcessor"
    /\ store = << >>
    /\ \E j \in DOMAIN invocation.event :
          /\ IsOrderCreated(invocation.event[j].body)
          /\ invocation.faults[j] = NoFault
          /\ invocation.event[j].messageId \in ReportedFailed

\* Record j of the last batch carries an OrderCreated event for an order in
\* the table and its UpdateCommand met no fault.
GoodRecord(j) ==
    /\ IsOrderCreated(invocation.event[j].body)
    /\ EventId(invocation.event[j].body) \in DOMAIN store
    /\ invocation.faults[j] = NoFault

\* C17: every record of a batch that carries an OrderCreated event for an
\* order in the table, and whose update met no fault, has had its update
\* applied, whatever happened to the other records of the batch.
C17_RecordsProcessedIndependently ==
    invocation.handler = "orderProcessor" =>
        \A j \in DOMAIN invocation.event :
            GoodRecord(j) =>
                LET id == EventId(invocation.event[j].body)
                IN  /\ store[id].status = RuleStatus(store[id].items)
                    /\ store[id].processingNotes # NoAttribute
                    /\ Last(history[id]).by = "processor"
                    /\ invocation.event[j].messageId \notin ReportedFailed

\* C17 happens: the first record of the batch failed and the second was
\* applied.
C17_Witness ==
    /\ invocation.handler = "orderProcessor"
    /\ Len(invocation.event) >= 2
    /\ invocation.event[1].messageId \in ReportedFailed
    /\ GoodRecord(2)
    /\ store[EventId(invocation.event[2].body)].status = "CONFIRMED"

\* The messageIds of the records from j on that are not good, in batch order.
RECURSIVE FailedFrom(_)
FailedFrom(j) ==
    IF j > Len(invocation.event) THEN << >>
    ELSE (IF GoodRecord(j) THEN << >> ELSE << invocation.event[j].messageId >>)
         \o FailedFrom(j + 1)

\* C18: batchItemFailures lists the records that failed (anything but an
\* OrderCreated event for an order in the table updated without a fault),
\* each once, in batch order, and no other.
C18_FailuresListedExactly ==
    invocation.handler = "orderProcessor" =>
        invocation.response.batchItemFailures = FailedFrom(1)

\* C18 happens: of a batch of two or more records some failed and some did not.
C18_Witness ==
    /\ invocation.handler = "orderProcessor"
    /\ Len(invocation.event) >= 2
    /\ invocation.response.batchItemFailures # << >>
    /\ Len(invocation.response.batchItemFailures) < Len(invocation.event)

\* The body fails however often it is delivered: it is not JSON, or has no
\* type or no detail, or a type other than OrderCreated, or no detail.id.
PermanentFailure(body) ==
    \/ body.kind # "json"
    \/ body.value.t # "object"
    \/ Falsy(Field(body.value, "type"))
    \/ Falsy(Field(body.value, "detail"))
    \/ Field(body.value, "type") # Str(<<"OrderCreated">>)
    \/ Falsy(Field(Field(body.value, "detail"), "id"))

\* C19 as claimed: a message that fails permanently is not delivered to the
\* processor a second time.
C19_PermanentFailureNotRedelivered ==
    invocation.handler = "orderProcessor" =>
        \A j \in DOMAIN invocation.event :
            PermanentFailure(invocation.event[j].body) =>
                invocation.event[j].ApproximateReceiveCount = 1


\* C20: when the UpdateCommand of a record meets a transient fault, the
\* message is reported failed, stays with the queue and the order is as it
\* was; when the UpdateCommand of a record meets none, a redelivered record
\* included, the order has the status of the business rule.
C20_TransientFaultIsRetried ==
    [][(invocation'.handler = "orderProcessor" /\ channel' # channel) =>
          \A j \in DOMAIN invocation'.event :
              LET record == invocation'.event[j]
                  id == EventId(record.body)
              IN  IF invocation'.faults[j] # NoFault
                  THEN /\ record.messageId \in Range(invocation'.response.batchItemFailures)
                       /\ record.messageId \in DOMAIN channel' \cup dlq'
                       /\ store'[id] = store[id]
                  ELSE /\ record.messageId \notin Range(invocation'.response.batchItemFailures)
                       /\ store'[id].status = RuleStatus(store[id].items)
                       /\ store'[id].updatedAt = now]_vars

\* C20 happens: the message was delivered before without the order being
\* updated, and this delivery has confirmed the order.
C20_Witness ==
    /\ invocation.handler = "orderProcessor"
    /\ \E j \in DOMAIN invocation.event :
          /\ invocation.event[j].ApproximateReceiveCount >= 2
          /\ invocation.faults[j] = NoFault
          /\ ProcessorWrites(history[EventId(invocation.event[j].body)]) = 1
          /\ store[EventId(invocation.event[j].body)].status = "CONFIRMED"


\* The create request for the id was answered 201.
Issued(id) == Lookup(issued, id, 0) = 1

\* The order has the status the business rule gives it.
Processed(id) ==
    /\ id \in DOMAIN store
    /\ store[id].status = RuleStatus(store[id].items)

\* A GetByID answered 200 shows the record as it is stored.
GetShowsStored ==
    (invocation.handler = "httpGetOrder" /\ invocation.response.statusCode = 200) =>
        invocation.response.data.order = store[invocation.event.v]

\* C21 as claimed: an order created with 201 eventually has the status of the
\* business rule, and a GetByID shows what is stored.
C21_CreatedOrderIsProcessed ==
    /\ Issued(TheId) ~> Processed(TheId)
    /\ []GetShowsStored

\* C21 amended: an order created with 201 eventually has the status of the
\* business rule, unless its message has failed MaxReceiveCount deliveries
\* and is in the dead-letter queue; a GetByID shows what is stored.
C21_CreatedOrderIsProcessedOrDeadLettered ==
    /\ Issued(TheId) ~> (Processed(TheId) \/ dlq # {})
    /\ []GetShowsStored

\* C21 happens: the order was created with 201, the processor has confirmed
\* it and a GetByID shows it confirmed.
C21_Witness ==
    /\ Issued(TheId)
    /\ Processed(TheId)
    /\ dlq = {}
    /\ invocation.handler = "httpGetOrder"
    /\ invocation.response.statusCode = 200
    /\ invocation.response.data.order.status = "CONFIRMED"


\* The id is a UUID as RFC 4122 lays it out: 8-4-4-4-12 hexadecimal digits,
\* version 1 to 5, variant 8, 9, a or b.
WellFormedId(pathId) ==
    /\ pathId.t = "string"
    /\ pathId.v[1]
    /\ pathId.v[2] \in {"1", "2", "3", "4", "5"}
    /\ pathId.v[3] \in {"8", "9", "a", "b", "A", "B"}

C23_DemoIdsAnswered404 ==
    (/\ invocation.handler = "httpGetOrder"
     /\ invocation.event \in { Str(NonexistentId), Str(NilUuid) }
     /\ invocation.event.v \notin DOMAIN store) =>
        invocation.response.statusCode = 404


\* The event is the one of the demo's large order: 4 line items with
\* quantities 5, 8, 50 and 25.
IsDemoLargeOrder(items) ==
    /\ Len(items) = 4
    /\ << items[1].qty.v, items[2].qty.v, items[3].qty.v, items[4].qty.v >> = << 5, 8, 50, 25 >>
    /\ << items[1].price.v, items[2].price.v >> = << Amount(2500), Amount(450) >>

RECURSIVE StoredTotal(_)
StoredTotal(items) ==
    IF items = << >> THEN 0
    ELSE Head(items).qty * Head(items).price + StoredTotal(Tail(items))

\* The orders a 200 response of the get or the list handler carries.
Returned(response) ==
    IF "orders" \in DOMAIN response.data THEN Range(response.data.orders)
    ELSE { response.data }

\* A get or a list step.
ReadStep ==
    /\ invocation' # invocation
    /\ invocation'.handler \in {"httpGetOrder", "httpListOrders"}

\* No stored order has an attribute for a derived value.
NothingDerivedStored ==
    \A id \in DOMAIN store : DOMAIN store[id] \cap {"orderTotal", "itemCount"} = {}

C25_TotalsAreExactSums ==
    /\ []NothingDerivedStored
    /\ [][ ReadStep =>
              /\ store' = store
              /\ invocation'.response.statusCode = 200
                 => \A e \in Returned(invocation'.response) :
                      /\ e.order.id \in DOMAIN store
                      /\ e.order = store[e.order.id]
                      /\ e.orderTotal = StoredTotal(e.order.items)
                      /\ e.itemCount = Len(e.order.items) ]_vars

(***************************************************************************)
(* C25, as the code has it: the same, with orderTotal the sum of           *)
(* qty * price rounded to the nearest hundredth.                           *)
(***************************************************************************)
\* The amount x to the nearest hundredth, a half upwards.
NearestHundredth(x) ==
    LET below == x - (x % 10)
    IN  IF x - below >= 5 THEN below + 10 ELSE below

C25_TotalsDerivedAtRead ==
    /\ []NothingDerivedStored
    /\ [][ ReadStep =>
              /\ store' = store
              /\ invocation'.response.statusCode = 200
                 => \A e \in Returned(invocation'.response) :
                      /\ e.order.id \in DOMAIN store
                      /\ e.order = store[e.order.id]
                      /\ e.orderTotal = NearestHundredth(StoredTotal(e.order.items))
                      /\ e.itemCount = Len(e.order.items) ]_vars

\* A list request has returned the order of one item at 10000.004 with the
\* total 10000.
C25_Witness ==
    /\ invocation.handler = "httpListOrders"
    /\ invocation.response.statusCode = 200
    /\ Len(invocation.response.data.orders) = 1
    /\ \A e \in Range(invocation.response.data.orders) :
          /\ e.itemCount = 1
          /\ StoredTotal(e.order.items) = Amount(10000) + 4
          /\ e.orderTotal = Amount(10000)

(***************************************************************************)
(* C26.  A list request whose status parameter is one of the five statuses *)
(* is served by the query of the status index and never by the scan, and   *)
(* every order it returns is stored with that status.                      *)
(***************************************************************************)
\* The status a list request filters by, when it names one of the five.
HasStatusFilter(q) ==
    /\ ~Falsy(q)
    /\ ~Falsy(Field(q, "status"))
    /\ Field(q, "status").v \in { << status >> : status \in Statuses }

C26_FilterServedByIndex ==
    [][ (/\ invocation' # invocation
         /\ invocation'.handler = "httpListOrders"
         /\ HasStatusFilter(invocation'.event))
        => /\ invocation'.command = "QueryCommand"
           /\ "ScanCommand" \notin Range(invocation'.calls)
           /\ invocation'.response.statusCode = 200
              => \A e \in Range(invocation'.response.data.orders) :
                    /\ << e.order.status >> = invocation'.event.status.v
                    /\ e.order.id \in DOMAIN store
                    /\ << store[e.order.id].status >> = invocation'.event.status.v ]_vars

\* Of two stored orders, one confirmed, a list of the PENDING ones has
\* returned the other alone.
C26_Witness ==
    /\ invocation.handler = "httpListOrders"
    /\ HasStatusFilter(invocation.event)
    /\ invocation.event.status.v = <<"PENDING">>
    /\ invocation.calls = << "QueryCommand" >>
    /\ invocation.response.statusCode = 200
    /\ Len(invocation.response.data.orders) = 1
    /\ \E id \in DOMAIN store : store[id].status = "CONFIRMED"
    /\ \E id \in DOMAIN store : store[id].status = "PENDING"

(***************************************************************************)
(* C27.  As claimed: the limit of a list request is clamped to 1..100,     *)
(* with 10 for an absent one: above 100 it is 100, below 1 it is 1, and    *)
(* inside the range it is used as given.                                   *)
(***************************************************************************)
\* The limit parameter of a list request, undefined when it has none.
RequestedLimit(q) == IF Falsy(q) THEN undefined ELSE Field(q, "limit")

\* A list step answered 200.
Listed ==
    /\ invocation' # invocation
    /\ invocation'.handler = "httpListOrders"
    /\ invocation'.response.statusCode = 200

C27_LimitClamped ==
    [][ Listed =>
          LET requested == RequestedLimit(invocation'.event)
              limit == invocation'.response.data.pagination.limit
          IN  /\ Falsy(requested) => limit = 10
              /\ (~Falsy(requested) /\ parseInt(requested.v).t = "number") =>
                    LET n == parseInt(requested.v).v
                    IN  limit = IF n > 100 THEN 100 ELSE IF n < 1 THEN 1 ELSE n ]_vars

(***************************************************************************)
(* C27, as the code has it: a limit inside 1..100 is used as given, and    *)
(* every other one (absent, not a number, below 1, above 100) is replaced  *)
(* by the default 10; no response carries more orders than that limit.     *)
(***************************************************************************)
C27_LimitInRangeOrDefault ==
    [][ Listed =>
          LET requested == RequestedLimit(invocation'.event)
              limit == invocation'.response.data.pagination.limit
              inRange == /\ ~Falsy(requested)
                         /\ parseInt(requested.v).t = "number"
                         /\ parseInt(requested.v).v \in 1..100
          IN  /\ inRange => limit = parseInt(requested.v).v
              /\ ~inRange => limit = 10
              /\ Len(invocation'.response.data.orders) <= limit ]_vars

\* limit=101 has been answered with the limit 10.
C27_Witness ==
    /\ invocation.handler = "httpListOrders"
    /\ invocation.response.statusCode = 200
    /\ RequestedLimit(invocation.event) = Str(<<"1", "0", "1">>)
    /\ invocation.response.data.pagination.limit = 10

(***************************************************************************)
(* C28.  A pagination token that the list handler cannot have issued for   *)
(* the path of the request (a string that is not base64 of JSON, JSON of   *)
(* another shape, a token of the other path) never makes the request fail: *)
(* when the read meets no fault the answer is 200 and is the one the same  *)
(* request gets without a token.                                           *)
(***************************************************************************)
\* The tokens the handler issues on the path a request takes: keys of the
\* index under the status of the request, or keys of the table.
IssuedFor(q) ==
    IF HasStatusFilter(q)
    THEN { Base64(JSONstringify(IndexKey([id |-> id, status |-> q.status.v[1],
                                          createdAt |-> t]))) :
             id \in OrderIds, t \in 0..MaxTime }
    ELSE { Base64(JSONstringify(TableKey(id))) : id \in OrderIds }

\* A list request that carries a token of another kind.
MalformedToken(q) ==
    /\ ~Falsy(q)
    /\ ~Falsy(Field(q, "nextToken"))
    /\ Field(q, "nextToken") \notin IssuedFor(q)

C28_MalformedTokenStartsOver ==
    [][ (/\ invocation' # invocation
         /\ invocation'.handler = "httpListOrders"
         /\ invocation'.faults = << NoFault >>
         /\ MalformedToken(invocation'.event))
        => /\ invocation'.response.statusCode = 200
           /\ invocation'.response =
                listOrders(store, [invocation'.event EXCEPT !.nextToken = undefined],
                           NoFault).response ]_vars

(***************************************************************************)
(* C29.  No fault escapes a handler: whatever the event and whatever fault *)
(* the table or the queue raises, the create, get and list handlers return *)
(* a status code, with an error in the body when it is not a success, the  *)
(* get and list handlers answer a throttled read 429 and any other fault   *)
(* of the read 500, and the processor returns its batchItemFailures and    *)
(* never throws, also for an event that has no Records.                    *)
(***************************************************************************)
HttpHandlers == { "httpCreateOrder", "httpGetOrder", "httpListOrders" }

C29_NoFaultEscapes ==
    [][ invocation' # invocation =>
          LET response == invocation'.response
              raised == { f \in Range(invocation'.faults) : f # NoFault }
          IN  /\ "thrown" \notin DOMAIN response
              /\ invocation'.handler \in HttpHandlers =>
                    /\ "statusCode" \in DOMAIN response
                    /\ response.statusCode >= 400 => "error" \in DOMAIN response
              /\ invocation'.handler \in {"httpGetOrder", "httpListOrders"} =>
                    \A f \in raised :
                        response.statusCode =
                            IF f = "ProvisionedThroughputExceededException" THEN 429
                            ELSE 500
              /\ invocation'.handler = "orderProcessor" =>
                    "batchItemFailures" \in DOMAIN response ]_vars

(***************************************************************************)
(* C30.  Two processor invocations that hold the event of one order at the *)
(* same time do not conflict: the update of each succeeds since the order  *)
(* exists, the order stored after an update is the one that update wrote   *)
(* (status, notes and updatedAt of the later writer, the rest untouched),  *)
(* and all of them write the status and the notes that the rules give for  *)
(* the items of the order, whatever the interleaving.                      *)
(***************************************************************************)
\* The worker whose update is applied in this step.
Completing(worker) ==
    /\ worker \in DOMAIN inflight
    /\ worker \notin DOMAIN inflight'

C30_ConcurrentUpdatesLastWriterWins ==
    /\ [][ \A worker \in Workers :
            (Completing(worker) /\ inflight[worker].params.orderId \in DOMAIN store) =>
                LET params == inflight[worker].params
                    before == store[params.orderId]
                    after == store'[params.orderId]
                IN  /\ invocation'.response.batchItemFailures = << >>
                    /\ after = [before EXCEPT
                                  !.status = params.outcome.newStatus,
                                  !.processingNotes = params.outcome.processingNotes,
                                  !.updatedAt = params.updatedAt] ]_vars
    /\ [](\A id \in DOMAIN history :
            \A i \in DOMAIN history[id] :
                history[id][i].by = "processor" =>
                    history[id][i].status = RuleStatus(store[id].items))
    /\ [](\A id \in DOMAIN history :
            \A i, j \in DOMAIN history[id] :
                (history[id][i].by = "processor" /\ history[id][j].by = "processor") =>
                    history[id][i].processingNotes = history[id][j].processingNotes)

\* Both workers have updated the high-value order, the clock has moved, and
\* the order carries the time at which the last writer built its update.
C30_Witness ==
    /\ TheId \in DOMAIN history
    /\ ProcessorWrites(history[TheId]) = 2
    /\ inflight = << >>
    /\ store[TheId].updatedAt = 0
    /\ now = 1
    /\ store[TheId].status = "PENDING_APPROVAL"

(***************************************************************************)
(* C31.  The processor never writes CANCELLED or PENDING: every status it  *)
(* has written is CONFIRMED, PENDING_REVIEW or PENDING_APPROVAL; the       *)
(* create handler writes PENDING and nothing else; and the status of every *)
(* stored order is one of the five statuses.                               *)
(***************************************************************************)
C31_StatusesByWriter ==
    /\ \A id \in DOMAIN history :
          \A i \in DOMAIN history[id] :
              /\ history[id][i].by = "processor" =>
                    history[id][i].status \in
                        {"CONFIRMED", "PENDING_REVIEW", "PENDING_APPROVAL"}
              /\ history[id][i].by = "intake" => history[id][i].status = "PENDING"
    /\ \A id \in DOMAIN store :
          store[id].status \in
              {"PENDING", "CONFIRMED", "PENDING_REVIEW", "PENDING_APPROVAL", "CANCELLED"}

\* An order was created, cancelled by hand and then processed.
C31_Witness ==
    /\ TheId \in DOMAIN history
    /\ Len(history[TheId]) = 3
    /\ history[TheId][1].by = "intake"
    /\ history[TheId][2].by = "external"
    /\ history[TheId][3].by = "processor"
    /\ store[TheId].status = history[TheId][3].status

(***************************************************************************)
(* C32.  A processor update changes only status, updatedAt and             *)
(* processingNotes: an order is created under its id with createdAt equal  *)
(* to updatedAt, and from then on no step, and so no processed event,      *)
(* changes its id, customerName, items or createdAt, or removes it.        *)
(***************************************************************************)
\* The attributes of an order that are fixed when it is created.
CreationAttributes(order) ==
    [id |-> order.id, customerName |-> order.customerName, items |-> order.items,
     createdAt |-> order.createdAt]

C32_UpdateKeepsCreationAttributes ==
    [][ /\ \A id \in DOMAIN store :
              /\ id \in DOMAIN store'
              /\ CreationAttributes(store'[id]) = CreationAttributes(store[id])
              /\ DOMAIN store'[id] = DOMAIN store[id]
        /\ \A id \in DOMAIN store' \ DOMAIN store :
              /\ store'[id].id = id
              /\ store'[id].createdAt = store'[id].updatedAt ]_vars

\* An order created at time 0 has been processed at time 1.
C32_Witness ==
    /\ TheId \in DOMAIN store
    /\ store[TheId].createdAt = 0
    /\ store[TheId].updatedAt = 1
    /\ ProcessorWrites(history[TheId]) >= 1
    /\ Last(history[TheId]).by = "processor"

(***************************************************************************)
(* C33.  Without a status filter the list handler sorts the page it has    *)
(* fetched and nothing more: the orders of a response are those of one     *)
(* scan page, by createdAt ascending when sortOrder is asc and descending  *)
(* otherwise.  (That successive pages may be out of order with each other  *)
(* is what the witness shows.)                                             *)
(***************************************************************************)
\* A list request that asks for the oldest orders first.
AscendingRequested(q) ==
    /\ ~Falsy(q)
    /\ Field(q, "sortOrder") \in { Str(<<"asc">>), Str(<<"ASC">>) }

C33_PagesOutOfOrder ==
    /\ invocation.handler = "httpListOrders"
    /\ invocation.response.statusCode = 200
    /\ ~HasStatusFilter(invocation.event)
    /\ ~AscendingRequested(invocation.event)
    /\ ~Falsy(invocation.event)
    /\ \E first \in DOMAIN store :
          /\ invocation.event.nextToken = Base64(JSONstringify(TableKey(first)))
          /\ invocation.event.limit = Str(<<"1">>)
          /\ Len(invocation.response.data.orders) = 1
          /\ invocation.response.data.orders[1].order.createdAt > store[first].createdAt

HasUnknownStatus(q) ==
    /\ ~Falsy(q)
    /\ ~Falsy(Field(q, "status"))
    /\ ~HasStatusFilter(q)

C34_UnknownStatusIgnored ==
    [][ (/\ invocation' # invocation
         /\ invocation'.handler = "httpListOrders"
         /\ invocation'.faults = << NoFault >>
         /\ HasUnknownStatus(invocation'.event))
        => /\ invocation'.calls = << "ScanCommand" >>
           /\ invocation'.response.statusCode = 200
           /\ invocation'.response.data.filters.status = null
           /\ invocation'.response =
                listOrders(store, [invocation'.event EXCEPT !.status = undefined],
                           NoFault).response
           /\ { e.order.id : e \in Range(invocation'.response.data.orders) }
                = DOMAIN store
              \/ Len(invocation'.response.data.orders)
                   = invocation'.response.data.pagination.limit ]_vars

\* status=SHIPPED has returned a PENDING and a CONFIRMED order.
C34_Witness ==
    /\ invocation.handler = "httpListOrders"
    /\ HasUnknownStatus(invocation.event)
    /\ invocation.event.status = Str(<<"SHIPPED">>)
    /\ invocation.response.statusCode = 200
    /\ { e.order.status : e \in Range(invocation.response.data.orders) }
         = { "PENDING", "CONFIRMED" }

(***************************************************************************)
(* C35.  Persist before publish: every OrderCreated event the create       *)
(* handler has put on the queue names an order that is in the table, and   *)
(* as nothing deletes orders the processor never reports such an event     *)
(* failed unless its UpdateCommand met a fault.                            *)
(***************************************************************************)
C35_PersistBeforePublish ==
    /\ [](QueuedIds \subseteq DOMAIN store)
    /\ [][ (invocation'.handler = "orderProcessor" /\ channel' # channel) =>
              \A k \in DOMAIN invocation'.event :
                  invocation'.faults[k] = NoFault =>
                      invocation'.event[k].messageId
                          \notin Range(invocation'.response.batchItemFailures) ]_vars

\* The events of two orders have been processed in one batch and both orders
\* are confirmed.
C35_Witness ==
    /\ invocation.handler = "orderProcessor"
    /\ Len(invocation.event) = 2
    /\ invocation.response.batchItemFailures = << >>
    /\ \A id \in OrderIds : id \in DOMAIN store /\ store[id].status = "CONFIRMED"

(***************************************************************************)
(* C36.  The decision of the processor and the total the get handler       *)
(* shows agree: an order created by the create handler and processed once  *)
(* is PENDING_APPROVAL exactly when the orderTotal of its get response     *)
(* exceeds 10000; and the items of every queued event are the stored items *)
(* of its order.                                                           *)
(***************************************************************************)
\* The order was written by the create handler and then once by the
\* processor, and by nothing else.
ProcessedOnce(id) ==
    /\ id \in DOMAIN history
    /\ Len(history[id]) = 2
    /\ history[id][1].by = "intake"
    /\ history[id][2].by = "processor"

C36_DecisionAgreesWithTotal ==
    /\ [](\A m \in DOMAIN channel :
            LET detail == JSONparse(channel[m].body).detail
            IN  /\ detail.id.v \in DOMAIN store
                /\ detail.items = jsonItems(store[detail.id.v].items))
    /\ [][ (/\ invocation' # invocation
            /\ invocation'.handler = "httpGetOrder"
            /\ invocation'.response.statusCode = 200
            /\ ProcessedOnce(invocation'.response.data.order.id))
           => (invocation'.response.data.order.status = "PENDING_APPROVAL"
                 <=> invocation'.response.data.orderTotal > Amount(10000)) ]_vars

(***************************************************************************)
(* C37.  The status and the note the processor writes are a function of    *)
(* the items the event carries, whatever the stored order contains: more   *)
(* than 10000 in value gives PENDING_APPROVAL, else more than 10 items     *)
(* PENDING_REVIEW, else CONFIRMED; an event whose detail has no items      *)
(* gives CONFIRMED.                                                        *)
(***************************************************************************)
\* What the rules give for the items of an event.
StatusOfItems(items) ==
    IF items.t \in {"undefined", "null"} THEN "CONFIRMED"
    ELSE IF SumQtyTimesPrice(items.v) > Amount(10000) THEN "PENDING_APPROVAL"
    ELSE IF Len(items.v) > 10 THEN "PENDING_REVIEW"
    ELSE "CONFIRMED"

NoteOfStatus(status) ==
    IF status = "PENDING_APPROVAL" THEN "High-value order requires approval"
    ELSE IF status = "PENDING_REVIEW" THEN "Large order requires manual review"
    ELSE "Order processed successfully"

\* Record k of the batch is the last of the batch that was not reported
\* failed.
LastWritten(inv, k) ==
    /\ inv.event[k].messageId \notin Range(inv.response.batchItemFailures)
    /\ \A j \in DOMAIN inv.event :
          j > k => inv.event[j].messageId \in Range(inv.response.batchItemFailures)

C37_StatusFromEventItemsOnly ==
    [][ (invocation'.handler = "orderProcessor" /\ channel' # channel) =>
          \A k \in DOMAIN invocation'.event :
              LastWritten(invocation', k) =>
                  LET detail == JSONparse(invocation'.event[k].body).detail
                      status == StatusOfItems(Field(detail, "items"))
                  IN  /\ store'[detail.id.v].status = status
                      /\ store'[detail.id.v].processingNotes = NoteOfStatus(status) ]_vars

\* The stored order is worth more than 10000, the event handled last had no
\* items, and the order is CONFIRMED.
C37_Witness ==
    /\ invocation.handler = "orderProcessor"
    /\ Len(invocation.event) = 1
    /\ invocation.response.batchItemFailures = << >>
    /\ Field(JSONparse(invocation.event[1].body).detail, "items") = undefined
    /\ TheId \in DOMAIN store
    /\ orderTotal(store[TheId].items) > Amount(10000)
    /\ store[TheId].status = "CONFIRMED"
    /\ store[TheId].processingNotes = "Order processed successfully"

(***************************************************************************)
(* C38.  The health check answers 200 with the overall status 'healthy'    *)
(* only when every service check it ran is healthy: when the queue check   *)
(* fails, the response is 503 with the status 'unhealthy'.                 *)
(***************************************************************************)
\* The queue check of the last health check ran and its command failed.
QueueCheckFailed ==
    /\ invocation.handler = "healthCheck"
    /\ invocation.calls = << "GetQueueAttributesCommand" >>
    /\ invocation.faults[1] # NoFault

C38_HealthyOnlyIfEveryCheckHealthy ==
    invocation.handler = "healthCheck" =>
        /\ (invocation.response.statusCode = 200
              /\ invocation.response.data.status = "healthy")
             => \A service \in DOMAIN invocation.response.data.services :
                   invocation.response.data.services[service].status = "healthy"
        /\ QueueCheckFailed =>
              /\ invocation.response.statusCode = 503
              /\ invocation.response.data.status = "unhealthy"

====
